---- MODULE Spec2Model ----
(***************************************************************************)
(* Model of the G-code core of GCodeWebSimulator:                          *)
(*   - the path generator (src/src/utils/gcodePathGenerator.ts),           *)
(*   - the line parser (gcodeParser.ts, src/unnamed/part_000),             *)
(*   - the frame synthesizer (calculateAnimationFrames, GCodeViewer.vue).  *)
(*                                                                         *)
(* JavaScript objects that the code shares by reference (the segments      *)
(* array, the PathSegment objects) live in two heaps, `arrays` and         *)
(* `segObjs`; a reference is an index into its heap and 0 is null.         *)
(* An optional field or parameter (`X?: number`) is a record field or a    *)
(* function argument that is present or absent (tested with DOMAIN).       *)
(***************************************************************************)
EXTENDS Integers, Sequences, FiniteSets, TLC

(***************************************************************************)
(* Bounds of the exploration.                                              *)
(***************************************************************************)
\* instructions folded by the generatePath call of Spec
MaxCmds == 3
\* generatePath calls on one generator in ReuseSpec
MaxCalls == 2
\* instructions folded over all the generatePath calls of ReuseSpec
MaxReuseCmds == 3

VARIABLES
  currentPosition,        \* this.currentPosition, <<x, y, z>>
  currentExtrusion,       \* this.currentExtrusion
  isAbsolutePositioning,  \* this.isAbsolutePositioning
  isAbsoluteExtrusion,    \* this.isAbsoluteExtrusion
  segments,               \* this.segments: reference into arrays
  currentSegment,         \* this.currentSegment: reference into segObjs, 0 = null
  currentFeedrate,        \* this.currentFeedrate
  arrays,                 \* heap of PathSegment[] arrays (sequences of references)
  segObjs,                \* heap of PathSegment objects
  pc,                     \* "idle" | "loop": position inside generatePath
  commands,               \* the instructions of the running call folded so far
  returned,               \* what each finished call returned, and from which input
  lastCommand,            \* the instruction handled by the latest loop iteration
  tokens,                 \* ParseSpec: the parts the input line is written from
  rawLine,                \* ParseSpec: the line given to parseCommand
  parsed,                 \* ParseSpec: what parseCommand returned
  ppc,                    \* ParseSpec: "idle" | "input" | "parsed"
  rawContent,             \* store: rawContent.value, a string
  parseResult,            \* store: parseResult.value, <<>> = null
  validationErrors,       \* store: validationErrors.value
  isParsing,              \* store: isParsing.value
  pendingParses,          \* store: the parseContent calls waiting at their await, oldest
                          \* first, each as the content it was started with
  storeCalls,             \* store: calls of store actions so far
  parses,                 \* store: the parseGCode calls made so far, each with
                          \* its content and its result
  spc,                    \* "idle" | "store" | "doc"
  parsedSegments,         \* FramesSpec: the segment list given to the synthesizer
  playbackSpeed,          \* FramesSpec: playbackSpeed.value, mm/min
  animationFrames,        \* FramesSpec: what calculateAnimationFrames returned
  fpc,                    \* FramesSpec: "idle" | "input" | "frames"
  isPlaying,              \* GCodeViewer: isPlaying.value
  animationFrameId,       \* GCodeViewer: animationFrameId: 0 = null, 1 = the
                          \* handle of the last updateAnimation request,
                          \* 2 = that of the last animate request
  tickQueued,             \* GCodeViewer: a requested updateAnimation waits
  renderQueued,           \* GCodeViewer: a requested animate waits
  toolHead,               \* GCodeViewer: toolHead.position, in LUnit
  controlsEnabled,        \* GCodeViewer: controls.enabled
  currentFrameIndex,      \* GCodeViewer: state.currentFrameIndex.value
  MAX_SPEED,              \* GCodeViewer: MAX_SPEED.value
  hasPath,                \* GCodeViewer: hasPath.value
  updates,                \* GCodeViewer: updatePath calls so far
  targetFrameIndex        \* GCodeViewer: updateAnimation's local while its
                          \* loop runs, -1 while no tick runs

genVars == <<currentPosition, currentExtrusion, isAbsolutePositioning,
             isAbsoluteExtrusion, segments, currentSegment, currentFeedrate,
             arrays, segObjs>>

parseVars == <<tokens, rawLine, parsed, ppc,
               rawContent, parseResult, validationErrors, isParsing,
               pendingParses, storeCalls, parses, spc>>

viewVars == <<isPlaying, animationFrameId, tickQueued, currentFrameIndex,
              MAX_SPEED, hasPath, updates, targetFrameIndex,
              renderQueued, toolHead, controlsEnabled>>

frameVars == <<parsedSegments, playbackSpeed, animationFrames, fpc, viewVars>>

vars == <<currentPosition, currentExtrusion, isAbsolutePositioning,
          isAbsoluteExtrusion, segments, currentSegment, currentFeedrate,
          arrays, segObjs, pc, commands, returned, lastCommand,
          tokens, rawLine, parsed, ppc,
          rawContent, parseResult, validationErrors, isParsing,
          pendingParses, storeCalls, parses, spc,
          parsedSegments, playbackSpeed, animationFrames, fpc,
          isPlaying, animationFrameId, tickQueued, currentFrameIndex,
          MAX_SPEED, hasPath, updates, targetFrameIndex,
          renderQueued, toolHead, controlsEnabled>>

(***************************************************************************)
(* Helpers on optional parameters and vectors.                             *)
(***************************************************************************)
Has(params, letter) == letter \in DOMAIN params

\* `params.I || 0`: undefined and 0 both give 0
OrZero(params, letter) == IF Has(params, letter) THEN params[letter] ELSE 0

Restrict(f, S) == [k \in (DOMAIN f) \cap S |-> f[k]]

Last(s) == s[Len(s)]

Front(s) == SubSeq(s, 1, Len(s) - 1)

\* the generator's fields as one value
G ==
  [currentPosition |-> currentPosition,
   currentExtrusion |-> currentExtrusion,
   isAbsolutePositioning |-> isAbsolutePositioning,
   isAbsoluteExtrusion |-> isAbsoluteExtrusion,
   segments |-> segments,
   currentSegment |-> currentSegment,
   currentFeedrate |-> currentFeedrate,
   arrays |-> arrays,
   segObjs |-> segObjs]

\* new GCodePathGenerator()
Constructor ==
  [currentPosition |-> <<0, 0, 0>>,
   currentExtrusion |-> 0,
   isAbsolutePositioning |-> TRUE,
   isAbsoluteExtrusion |-> TRUE,
   segments |-> 1,
   currentSegment |-> 0,
   currentFeedrate |-> 0,
   arrays |-> << <<>> >>,
   segObjs |-> <<>>]

\* reset() that forgets the feedrate
reset_KeepFeedrate(g) ==
  [g EXCEPT !.currentPosition = <<0, 0, 0>>,
            !.currentExtrusion = 0,
            !.isAbsolutePositioning = TRUE,
            !.isAbsoluteExtrusion = TRUE,
            !.segments = Len(g.arrays) + 1,
            !.arrays = Append(g.arrays, <<>>),
            !.currentSegment = 0]

\* reset(): position zeroed in place, every other field reassigned; the
\* segments field gets a fresh array
reset(g) ==
  [g EXCEPT !.currentPosition = <<0, 0, 0>>,
            !.currentExtrusion = 0,
            !.isAbsolutePositioning = TRUE,
            !.isAbsoluteExtrusion = TRUE,
            !.segments = Len(g.arrays) + 1,
            !.arrays = Append(g.arrays, <<>>),
            !.currentSegment = 0,
            !.currentFeedrate = 0]

\* calculateNewPosition that adds the parameter to the axis in either mode
calculateNewPosition_Incremental(g, command) ==
  LET p == command.params
      cur == g.currentPosition
      axis(letter, i) == IF Has(p, letter) THEN cur[i] + p[letter] ELSE cur[i]
  IN <<axis("X", 1), axis("Y", 2), axis("Z", 3)>>

\* calculateNewPosition(command)
calculateNewPosition(g, command) ==
  LET p == command.params
      cur == g.currentPosition
      axis(letter, i) ==
        IF Has(p, letter)
        THEN (IF g.isAbsolutePositioning THEN p[letter] ELSE cur[i] + p[letter])
        ELSE cur[i]
  IN <<axis("X", 1), axis("Y", 2), axis("Z", 3)>>

\* calculateNewExtrusion(command)
calculateNewExtrusion(g, command) ==
  IF ~Has(command.params, "E") THEN g.currentExtrusion
  ELSE IF g.isAbsoluteExtrusion THEN command.params["E"]
  ELSE g.currentExtrusion + command.params["E"]

\* a classification that also counts an unchanged amount as extruding
IsExtruding_NonStrict(newExtrusion, current) == newExtrusion >= current

\* `const isExtruding = newExtrusion > this.currentExtrusion`
IsExtruding(newExtrusion, current) == newExtrusion > current

\* the test without its isExtruding comparison
NeedsNewSegment_TypeOnly(g, type, isExtruding) ==
  \/ g.currentSegment = 0
  \/ g.segObjs[g.currentSegment].type # type

\* the test with the isExtruding comparison inverted (=== for !==)
NeedsNewSegment_FlagInverted(g, type, isExtruding) ==
  \/ g.currentSegment = 0
  \/ g.segObjs[g.currentSegment].type # type
  \/ g.segObjs[g.currentSegment].isExtruding = isExtruding

\* the test `!currentSegment || currentSegment.type !== command.type ||
\* currentSegment.isExtruding !== isExtruding`
NeedsNewSegment(g, type, isExtruding) ==
  \/ g.currentSegment = 0
  \/ g.segObjs[g.currentSegment].type # type
  \/ g.segObjs[g.currentSegment].isExtruding # isExtruding

\* `if (currentSegment && currentSegment.points.length > 0)
\*    this.segments.push(currentSegment)`
SaveCurrentSegment(g) ==
  IF g.currentSegment # 0 /\ Len(g.segObjs[g.currentSegment].points) > 0
  THEN [g EXCEPT !.arrays[g.segments] = Append(@, g.currentSegment)]
  ELSE g

\* `this.currentSegment = { points, type, isExtruding }`: a new object
NewSegment(g, points, type, isExtruding) ==
  [g EXCEPT !.segObjs = Append(@, [points |-> points, type |-> type,
                                      isExtruding |-> isExtruding]),
            !.currentSegment = Len(g.segObjs) + 1]

\* a push that puts the point in front of the segment's points
PushPoint_InFront(g, point) ==
  IF g.currentSegment # 0
  THEN [g EXCEPT !.segObjs[g.currentSegment].points = <<point>> \o @]
  ELSE g

\* `this.currentSegment.points.push(point)`
PushPoint(g, point) ==
  IF g.currentSegment # 0
  THEN [g EXCEPT !.segObjs[g.currentSegment].points = Append(@, point)]
  ELSE g

\* processLinearMove whose point takes the instruction's own F when it has one
processLinearMove_NewFeedrate(g, command) ==
  LET newPosition == calculateNewPosition(g, command)
      newExtrusion == calculateNewExtrusion(g, command)
      isExtruding == IsExtruding(newExtrusion, g.currentExtrusion)
      point == [position |-> newPosition,
                type |-> command.type,
                feedrate |-> IF Has(command.params, "F")
                             THEN command.params["F"] ELSE g.currentFeedrate,
                extrusion |-> newExtrusion,
                lineNumber |-> command.lineNumber]
      g1 == IF NeedsNewSegment(g, command.type, isExtruding)
            THEN NewSegment(SaveCurrentSegment(g), <<>>, command.type, isExtruding)
            ELSE g
  IN [PushPoint(g1, point) EXCEPT !.currentPosition = newPosition,
                                  !.currentExtrusion = newExtrusion]

\* processLinearMove(command): G0 / G1
processLinearMove(g, command) ==
  LET newPosition == calculateNewPosition(g, command)
      newExtrusion == calculateNewExtrusion(g, command)
      isExtruding == IsExtruding(newExtrusion, g.currentExtrusion)
      point == [position |-> newPosition,
                type |-> command.type,
                feedrate |-> g.currentFeedrate,
                extrusion |-> newExtrusion,
                lineNumber |-> command.lineNumber]
      g1 == IF NeedsNewSegment(g, command.type, isExtruding)
            THEN NewSegment(SaveCurrentSegment(g), <<>>, command.type, isExtruding)
            ELSE g
  IN [PushPoint(g1, point) EXCEPT !.currentPosition = newPosition,
                                  !.currentExtrusion = newExtrusion]

\* an arcParams object that leaves out the K offset
ArcParams_InPlane(command) == Restrict(command.params, {"I", "J"})

\* the arcParams object of an arc instruction: its I, J, K where given
ArcParams(command) == Restrict(command.params, {"I", "J", "K"})

\* the open segment's last point left with the arc parameters it has
OverwriteLastParams_Keep(g, arcParams) == g

\* lastPoint.params = arcParams on the last point of the open segment (the
\* field is created when absent)
OverwriteLastParams(g, arcParams) ==
  [g EXCEPT !.segObjs[g.currentSegment].points[
              Len(g.segObjs[g.currentSegment].points)] =
     [f \in (DOMAIN @) \cup {"params"} |->
        IF f = "params" THEN arcParams ELSE @[f]]]

\* a rejection test that lets every radius pass
RadiusTooSmall_Never(i, j, k) == FALSE

\* the rejection test `radius < 0.001` on radius = |(I, J, K)|, compared on
\* the squares: I^2 + J^2 + K^2 < 0.001^2
RadiusTooSmall(i, j, k) == (i * i + j * j + k * k) * 1000000 < 1

\* a test that also asks for an unchanged Z
SameInPlane_AllAxes(startPosition, endPosition) == endPosition = startPosition

\* `endPosition.x === startPosition.x && endPosition.y === startPosition.y`
SameInPlane(startPosition, endPosition) ==
  endPosition[1] = startPosition[1] /\ endPosition[2] = startPosition[2]

\* processArcMove(command): G2 / G3
processArcMove(g, command) ==
  LET p == command.params
      startPosition == g.currentPosition
      axis(letter, i) ==
        IF Has(p, letter)
        THEN (IF g.isAbsolutePositioning THEN p[letter]
              ELSE startPosition[i] + p[letter])
        ELSE startPosition[i]
      endPosition == <<axis("X", 1), axis("Y", 2), axis("Z", 3)>>
      newExtrusion == calculateNewExtrusion(g, command)
      isExtruding == IsExtruding(newExtrusion, g.currentExtrusion)
      arcParams == ArcParams(command)
      g1 == IF NeedsNewSegment(g, command.type, isExtruding)
            THEN NewSegment(SaveCurrentSegment(g), <<>>, command.type, isExtruding)
            ELSE g
      startPoint == [position |-> startPosition,
                     type |-> command.type,
                     feedrate |-> g.currentFeedrate,
                     extrusion |-> g.currentExtrusion,
                     lineNumber |-> command.lineNumber,
                     params |-> arcParams]
      endPoint == [position |-> endPosition,
                   type |-> command.type,
                   feedrate |-> g.currentFeedrate,
                   extrusion |-> newExtrusion,
                   lineNumber |-> command.lineNumber,
                   params |-> arcParams]
      cs == g1.currentSegment
      n == Len(g1.segObjs[cs].points)
      \* leading point: pushed into an empty segment, else the last point's
      \* params field is overwritten
      g2 == IF n = 0
            THEN PushPoint(g1, startPoint)
            ELSE OverwriteLastParams(g1, arcParams)
  IN IF SameInPlane(startPosition, endPosition)
     THEN g
     ELSE IF RadiusTooSmall(OrZero(p, "I"), OrZero(p, "J"), OrZero(p, "K"))
     THEN g
     ELSE [PushPoint(g2, endPoint) EXCEPT !.currentPosition = endPosition,
                                          !.currentExtrusion = newExtrusion]

\* processHomeMove that appends to an open rapid non-extruding segment instead
\* of closing it
processHomeMove_ReuseOpen(g, command) ==
  LET homePosition == <<0, 0, 0>>
      point == [position |-> homePosition,
                type |-> "G0",
                feedrate |-> g.currentFeedrate,
                lineNumber |-> command.lineNumber]
  IN IF NeedsNewSegment(g, "G0", FALSE)
     THEN [NewSegment(SaveCurrentSegment(g), <<point>>, "G0", FALSE)
             EXCEPT !.currentPosition = homePosition]
     ELSE [PushPoint(g, point) EXCEPT !.currentPosition = homePosition]

\* processHomeMove that leaves the current position where it was
processHomeMove_KeepPosition(g, command) ==
  LET point == [position |-> <<0, 0, 0>>,
                type |-> "G0",
                feedrate |-> g.currentFeedrate,
                lineNumber |-> command.lineNumber]
  IN NewSegment(SaveCurrentSegment(g), <<point>>, "G0", FALSE)

\* processHomeMove(command): G28
processHomeMove(g, command) ==
  LET zero == <<0, 0, 0>>
      p == command.params
      \* `if (command.params.X !== undefined) homePosition.x = 0`, on a vector
      \* that was created as (0, 0, 0)
      hx == IF Has(p, "X") THEN [zero EXCEPT ![1] = 0] ELSE zero
      hy == IF Has(p, "Y") THEN [hx EXCEPT ![2] = 0] ELSE hx
      homePosition == IF Has(p, "Z") THEN [hy EXCEPT ![3] = 0] ELSE hy
      point == [position |-> homePosition,
                type |-> "G0",
                feedrate |-> g.currentFeedrate,
                lineNumber |-> command.lineNumber]
  IN [NewSegment(SaveCurrentSegment(g), <<point>>, "G0", FALSE)
        EXCEPT !.currentPosition = homePosition]

\* the F update that leaves Home instructions out
UpdateFeedrate_SkipHome(g, command) ==
  IF Has(command.params, "F") /\ command.type # "G28"
  THEN [g EXCEPT !.currentFeedrate = command.params["F"]]
  ELSE g

\* the F update that ends processCommand
UpdateFeedrate(g, command) ==
  IF Has(command.params, "F")
  THEN [g EXCEPT !.currentFeedrate = command.params["F"]]
  ELSE g

\* a switch whose default case handles the instruction as a linear move
Dispatch_DefaultMoves(g, command) ==
  CASE command.type \in {"G2", "G3"} -> processArcMove(g, command)
    [] command.type = "G90" -> [g EXCEPT !.isAbsolutePositioning = TRUE]
    [] command.type = "G91" -> [g EXCEPT !.isAbsolutePositioning = FALSE]
    [] command.type = "G28" -> processHomeMove(g, command)
    [] OTHER -> processLinearMove(g, command)

\* the switch of processCommand
Dispatch(g, command) ==
  CASE command.type \in {"G0", "G1"} -> processLinearMove(g, command)
    [] command.type \in {"G2", "G3"} -> processArcMove(g, command)
    [] command.type = "G90" -> [g EXCEPT !.isAbsolutePositioning = TRUE]
    [] command.type = "G91" -> [g EXCEPT !.isAbsolutePositioning = FALSE]
    [] command.type = "G28" -> processHomeMove(g, command)
    [] OTHER -> g

\* processCommand that takes the instruction's F before handling it
processCommand_FeedFirst(g, command) == Dispatch(UpdateFeedrate(g, command), command)

\* processCommand(command)
processCommand(g, command) == UpdateFeedrate(Dispatch(g, command), command)

\* an end of generatePath that leaves the open segment out of the output
FlushLastSegment_Drop(g) == g

\* the end of generatePath: the open segment is pushed when it has points
FlushLastSegment(g) ==
  IF g.currentSegment # 0 /\ Len(g.segObjs[g.currentSegment].points) > 0
  THEN [g EXCEPT !.arrays[g.segments] = Append(@, g.currentSegment)]
  ELSE g

RECURSIVE FoldCommands(_, _, _)
\* the for loop of generatePath over commands[i..]
FoldCommands(g, cmds, i) ==
  IF i > Len(cmds) THEN g
  ELSE FoldCommands(processCommand(g, cmds[i]), cmds, i + 1)

\* the PathSegment[] a reference denotes: the array with its objects
Deref(g, ref) == [i \in 1..Len(g.arrays[ref]) |-> g.segObjs[g.arrays[ref][i]]]

\* generatePath(commands) as a whole, on generator state g; the value is the
\* generator afterwards, whose segments field is the returned reference
generatePath(g, cmds) == FlushLastSegment(FoldCommands(reset(g), cmds, 1))

(***************************************************************************)
(* The instructions the exploration folds.  A GCodeCommand is its type and *)
(* its params; lineNumber is given when the instruction enters the list.   *)
(***************************************************************************)
NoParams == [k \in {} |-> 0]

Cmd(type, params) == [type |-> type, params |-> params]

WithLine(c, n) == [type |-> c.type, params |-> c.params, lineNumber |-> n]

(***************************************************************************)
(* The generator as a state machine.                                       *)
(***************************************************************************)
Install(g) ==
  /\ currentPosition' = g.currentPosition
  /\ currentExtrusion' = g.currentExtrusion
  /\ isAbsolutePositioning' = g.isAbsolutePositioning
  /\ isAbsoluteExtrusion' = g.isAbsoluteExtrusion
  /\ segments' = g.segments
  /\ currentSegment' = g.currentSegment
  /\ currentFeedrate' = g.currentFeedrate
  /\ arrays' = g.arrays
  /\ segObjs' = g.segObjs

NoCommand == Cmd("none", NoParams)

GenInit ==
  /\ currentPosition = Constructor.currentPosition
  /\ currentExtrusion = Constructor.currentExtrusion
  /\ isAbsolutePositioning = Constructor.isAbsolutePositioning
  /\ isAbsoluteExtrusion = Constructor.isAbsoluteExtrusion
  /\ segments = Constructor.segments
  /\ currentSegment = Constructor.currentSegment
  /\ currentFeedrate = Constructor.currentFeedrate
  /\ arrays = Constructor.arrays
  /\ segObjs = Constructor.segObjs
  /\ pc = "idle"
  /\ commands = <<>>
  /\ returned = <<>>
  /\ lastCommand = NoCommand

ParseIdle ==
  /\ tokens = <<>>
  /\ rawLine = <<>>
  /\ parsed = <<>>
  /\ ppc = "idle"
  /\ (/\ rawContent = <<>>
      /\ parseResult = <<>>
      /\ validationErrors = <<>>
      /\ isParsing = FALSE
      /\ pendingParses = <<>>
      /\ storeCalls = 0
      /\ parses = <<>>
      /\ spc = "idle")

DEFAULT_SPEED == 10000

INITIAL_MAX_SPEED == 100000

\* the viewer's playback refs as they are declared
ViewIdle ==
  /\ isPlaying = FALSE
  /\ animationFrameId = 0
  /\ tickQueued = FALSE
  /\ currentFrameIndex = 0
  /\ MAX_SPEED = INITIAL_MAX_SPEED
  /\ hasPath = FALSE
  /\ updates = 0
  /\ targetFrameIndex = -1
  /\ renderQueued = FALSE
  /\ toolHead = <<0, 0, 0>>
  /\ controlsEnabled = TRUE

FramesIdle ==
  /\ parsedSegments = <<>>
  /\ playbackSpeed = DEFAULT_SPEED
  /\ animationFrames = <<>>
  /\ fpc = "idle"
  /\ ViewIdle

Init == GenInit /\ ParseIdle /\ FramesIdle

\* generatePath is entered: reset()
Begin(maxCalls) ==
  /\ pc = "idle"
  /\ Len(returned) < maxCalls
  /\ Install(reset(G))
  /\ pc' = "loop"
  /\ commands' = <<>>
  /\ lastCommand' = NoCommand
  /\ UNCHANGED returned
  /\ UNCHANGED <<parseVars, frameVars>>

\* one iteration of the for loop: processCommand(command), while the
\* instructions handled in all calls so far are fewer than maxCmds
LoopStep(c, maxCmds) ==
  /\ pc = "loop"
  /\ LET RECURSIVE Sum(_)
         Sum(i) == IF i = 0 THEN 0 ELSE Len(returned[i].input) + Sum(i - 1)
     IN Sum(Len(returned)) + Len(commands) < maxCmds
  /\ LET command == WithLine(c, Len(commands) + 1)
     IN /\ Install(processCommand(G, command))
        /\ commands' = Append(commands, command)
        /\ lastCommand' = command
  /\ UNCHANGED <<pc, returned>>
  /\ UNCHANGED <<parseVars, frameVars>>

\* the loop is over: the open segment is flushed and this.segments returned
GeneratePathReturn ==
  /\ pc = "loop"
  /\ LET g == FlushLastSegment(G)
     IN /\ Install(g)
        /\ returned' = Append(returned, [ref |-> g.segments,
                                         value |-> Deref(g, g.segments),
                                         input |-> commands])
  /\ pc' = "idle"
  /\ lastCommand' = NoCommand
  /\ UNCHANGED commands
  /\ UNCHANGED <<parseVars, frameVars>>

Next ==
  \/ Begin(1)
  \/ \E c \in ({ Cmd("G1", ("X" :> 10) @@ ("Y" :> 0) @@ ("F" :> 1000)),
                 Cmd("G1", ("X" :> 10) @@ ("E" :> 5)),
                 Cmd("G1", ("X" :> 20) @@ ("E" :> 10)),
                 Cmd("G1", ("X" :> 20)),
                 Cmd("G0", ("X" :> 10)),
                 Cmd("G0", ("Z" :> 5) @@ ("F" :> 500)),
                 Cmd("G0", ("X" :> 20) @@ ("E" :> 10)) }) : LoopStep(c, MaxCmds)
  \/ \E c \in ({ Cmd("G2", ("X" :> 10) @@ ("Y" :> 0) @@ ("I" :> 5) @@ ("J" :> 0)),
                 Cmd("G3", ("X" :> 20) @@ ("Y" :> 0) @@ ("I" :> 5) @@ ("J" :> 0)
                             @@ ("E" :> 10) @@ ("F" :> 1000)),
                 Cmd("G2", ("X" :> 20) @@ ("Y" :> 10) @@ ("K" :> 5)),
                 Cmd("G2", ("X" :> 10) @@ ("Y" :> 0) @@ ("E" :> 5) @@ ("F" :> 500)),
                 Cmd("G3", ("Z" :> 5) @@ ("I" :> 5) @@ ("E" :> 5)) }) : LoopStep(c, MaxCmds)
  \/ \E c \in ({ Cmd("G28", NoParams),
                 Cmd("G28", ("X" :> 0) @@ ("F" :> 1000)),
                 Cmd("G28", ("Z" :> 0)) }) : LoopStep(c, MaxCmds)
  \/ \E c \in ({ Cmd("G90", NoParams), Cmd("G91", NoParams) }) : LoopStep(c, MaxCmds)
  \/ \E c \in ({ Cmd("OTHER", NoParams),
                 Cmd("M104", ("S" :> 200) @@ ("F" :> 500)) }) : LoopStep(c, MaxCmds)
  \/ GeneratePathReturn

Spec == Init /\ [][Next]_vars

ReuseNext ==
  \/ Begin(MaxCalls)
  \/ (\E c \in ({ Cmd("G1", ("X" :> 10) @@ ("Y" :> 0) @@ ("F" :> 1000)),
          Cmd("G1", ("X" :> 10) @@ ("E" :> 5)),
          Cmd("G0", ("X" :> 20) @@ ("E" :> 10)),
          Cmd("G2", ("X" :> 10) @@ ("Y" :> 0) @@ ("I" :> 5) @@ ("J" :> 0)),
          Cmd("G3", ("X" :> 20) @@ ("Y" :> 0) @@ ("I" :> 5) @@ ("J" :> 0)
                      @@ ("E" :> 10) @@ ("F" :> 1000)),
          Cmd("G28", NoParams),
          Cmd("G91", NoParams),
          Cmd("M104", ("S" :> 200) @@ ("F" :> 500)) }) : LoopStep(c, MaxReuseCmds))
  \/ GeneratePathReturn

ReuseSpec == Init /\ [][ReuseNext]_vars

(***************************************************************************)
(* The line parser, parseCommand of gcodeParser.ts.  A string is the       *)
(* sequence of its characters.  A JavaScript number is held in thousandths *)
(* (10 is 10000, 1.5 is 1500), which is exact for the decimal literals of  *)
(* at most three fractional digits that the explored lines contain; NaN is *)
(* the empty sequence and a number v is <<v>>.                             *)
(***************************************************************************)
\* thousandths per unit
PScale == 1000

Num(n) == n * PScale

DigitVal(ch) ==
  CASE ch = "0" -> 0 [] ch = "1" -> 1 [] ch = "2" -> 2 [] ch = "3" -> 3
    [] ch = "4" -> 4 [] ch = "5" -> 5 [] ch = "6" -> 6 [] ch = "7" -> 7
    [] ch = "8" -> 8 [] ch = "9" -> 9

toUpperCase(str) ==
  [i \in 1..Len(str) |-> CASE str[i] = "g" -> "G" [] str[i] = "x" -> "X"
                            [] str[i] = "y" -> "Y" [] str[i] = "m" -> "M"
                            [] OTHER -> str[i]]

Tail1(str) == SubSeq(str, 2, Len(str))

RECURSIVE DigitPrefixLen(_, _)
\* how many digits str has from position i on
DigitPrefixLen(str, i) ==
  IF i <= Len(str) /\ str[i] \in {"0", "1", "2", "3", "4", "5", "6", "7", "8", "9"}
    THEN 1 + DigitPrefixLen(str, i + 1)
    ELSE 0

RECURSIVE DigitsValue(_, _, _)
\* the number written by the n digits of str from position i on
DigitsValue(str, i, n) ==
  IF n = 0 THEN 0
  ELSE DigitsValue(str, i, n - 1) * 10 + DigitVal(str[i + n - 1])

SignLen(str) == IF Len(str) > 0 /\ str[1] \in {"+", "-"} THEN 1 ELSE 0

\* parseInt(str): optional sign, then the longest digit prefix; NaN without one
\* (the 0x prefix of hexadecimal literals is left out: no explored part has it)
parseInt(str) ==
  LET s == SignLen(str)
      n == DigitPrefixLen(str, s + 1)
  IN IF n = 0 THEN <<>>
     ELSE <<(IF Len(str) > 0 /\ str[1] = "-" THEN -1 ELSE 1) * Num(DigitsValue(str, s + 1, n))>>

\* the first three fractional digits of str from position i on, as thousandths
Fraction(str, i) ==
  LET n == DigitPrefixLen(str, i)
      d(k) == IF k <= n THEN DigitVal(str[i + k - 1]) ELSE 0
  IN d(1) * 100 + d(2) * 10 + d(3)

\* parseFloat(str): optional sign, digits, optional '.' and digits; NaN when
\* there is no digit on either side of the point
parseFloat(str) ==
  LET s == SignLen(str)
      n == DigitPrefixLen(str, s + 1)
      dot == s + n + 1 <= Len(str) /\ str[s + n + 1] = "."
      m == IF dot THEN DigitPrefixLen(str, s + n + 2) ELSE 0
  IN IF n = 0 /\ m = 0 THEN <<>>
     ELSE <<(IF Len(str) > 0 /\ str[1] = "-" THEN -1 ELSE 1) * (Num(DigitsValue(str, s + 1, n))
                             + (IF dot THEN Fraction(str, s + n + 2) ELSE 0))>>

RECURSIVE BeforeSemicolon(_, _)
\* line.split(';')[0]
BeforeSemicolon(str, i) ==
  IF i > Len(str) \/ str[i] = ";" THEN SubSeq(str, 1, i - 1)
  ELSE BeforeSemicolon(str, i + 1)

RECURSIVE TrimLeft(_)
TrimLeft(str) ==
  IF Len(str) > 0 /\ str[1] = " " THEN TrimLeft(Tail1(str)) ELSE str

RECURSIVE TrimRight(_)
TrimRight(str) ==
  IF Len(str) > 0 /\ str[Len(str)] = " " THEN TrimRight(Front(str)) ELSE str

RECURSIVE SplitSpaces(_, _, _)
\* str.split(/\s+/): the maximal runs of non-blank characters between runs of
\* blanks, with an empty first or last part when str starts or ends blank
SplitSpaces(str, i, part) ==
  IF i > Len(str) THEN <<part>>
  ELSE IF str[i] = " "
       THEN (IF i > 1 /\ str[i - 1] = " "
             THEN SplitSpaces(str, i + 1, part)
             ELSE <<part>> \o SplitSpaces(str, i + 1, <<>>))
       ELSE SplitSpaces(str, i + 1, Append(part, str[i]))

ParamLetters == {"X", "Y", "Z", "E", "F", "H", "S", "I", "J", "K", "R"}

SetParam(params, letter, value) == (letter :> value) @@ params

\* one iteration of parseCommand's loop over parts, on the accumulator
\* st = [commandType, params, nNumber]; nNumber is <<>> while undefined and
\* <<parseInt result>> once an N part was seen
ParsePart(st, rawPart) ==
  LET part == toUpperCase(rawPart)
      param == part[1]
      valueStr == Tail1(part)
      value == IF (\E i \in 1..Len(valueStr) : valueStr[i] = (".")) THEN parseFloat(valueStr)
               ELSE parseInt(valueStr)
      code == parseInt(valueStr)
  IN IF Len(part) > 0 /\ part[1] = "N"
     THEN [st EXCEPT !.nNumber = <<parseInt(valueStr)>>]
     ELSE IF Len(part) = 0 \/ value = <<>> THEN st
     ELSE IF param \in {"G", "M", "T"}
          THEN [st EXCEPT
                  !.commandType =
                     IF param = "G" THEN
                         (CASE code[1] = Num(0) -> "G0"
                            [] code[1] = Num(1) -> "G1"
                            [] code[1] = Num(2) -> "G2"
                            [] code[1] = Num(3) -> "G3"
                            [] code[1] = Num(28) -> "G28"
                            [] code[1] = Num(90) -> "G90"
                            [] code[1] = Num(91) -> "G91"
                            [] code[1] = Num(40) -> "G40"
                            [] code[1] = Num(17) -> "G17"
                            [] code[1] = Num(71) -> "G71"
                            [] code[1] = Num(43) -> "G43"
                            [] OTHER -> @)
                     ELSE IF param = "M" THEN
                         (CASE code[1] = Num(3) -> "M03"
                            [] code[1] = Num(6) -> "M06"
                            [] code[1] = Num(104) -> "M104"
                            [] code[1] = Num(140) -> "M140"
                            [] code[1] = Num(106) -> "M106"
                            [] code[1] = Num(107) -> "M107"
                            [] OTHER -> @)
                     ELSE "T",
                  !.params = SetParam(@, param, code[1])]
     ELSE IF param \in ParamLetters
          THEN IF param \in ({"X", "Y", "Z", "E"}) /\ (~Has((st.params), "G") \/ (st.params)["G"] = 0)
               THEN [st EXCEPT !.commandType = "G1",
                               !.params = SetParam(SetParam(@, param, value[1]),
                                                   "G", Num(1))]
               ELSE [st EXCEPT !.params = SetParam(@, param, value[1])]
     ELSE st

RECURSIVE ParseParts(_, _, _)
ParseParts(st, parts, i) ==
  IF i > Len(parts) THEN st
  ELSE ParseParts(ParsePart(st, parts[i]), parts, i + 1)

\* parseCommand(line, lineNumber): <<>> for null, else <<command>>
parseCommand(line, lineNumber) ==
  LET cleanLine == (TrimRight(TrimLeft((BeforeSemicolon(line, 1)))))
      st == ParseParts([commandType |-> "OTHER", params |-> NoParams,
                        nNumber |-> <<>>],
                       SplitSpaces(cleanLine, 1, <<>>), 1)
  IN IF Len(cleanLine) = 0 THEN <<>>
     ELSE << [type |-> st.commandType,
              lineNumber |-> lineNumber,
              nNumber |-> st.nNumber,
              params |-> st.params,
              raw |-> line] >>

RECURSIVE SplitOn(_, _, _, _)
\* str.split(sep) for a separator of one character
SplitOn(str, sep, i, part) ==
  IF i > Len(str) THEN <<part>>
  ELSE IF str[i] = sep THEN <<part>> \o SplitOn(str, sep, i + 1, <<>>)
  ELSE SplitOn(str, sep, i + 1, Append(part, str[i]))

\* an accumulator that starts every bound at 0
ParseStart_Zero ==
  [commands |-> <<>>, validCommands |-> 0,
   max |-> [l \in {"X", "Y", "Z"} |-> <<0>>],
   min |-> [l \in {"X", "Y", "Z"} |-> <<0>>]]

\* an accumulator that starts from the bounds of the stored result
ParseStart_Kept ==
  [commands |-> <<>>, validCommands |-> 0,
   max |-> [l \in {"X", "Y", "Z"} |->
              IF parseResult = <<>> THEN <<>>
              ELSE <<parseResult[1].stats.max[l]>>],
   min |-> [l \in {"X", "Y", "Z"} |->
              IF parseResult = <<>> THEN <<>>
              ELSE <<parseResult[1].stats.min[l]>>]]

\* the locals of parseGCode before its loop; <<>> is -Infinity for a max and
\* Infinity for a min
ParseStart ==
  [commands |-> <<>>, validCommands |-> 0,
   max |-> [l \in {"X", "Y", "Z"} |-> <<>>],
   min |-> [l \in {"X", "Y", "Z"} |-> <<>>]]

\* the forEach callback of parseGCode once parseCommand has returned command
ParseLineInto(acc, command) ==
  IF command = <<>> THEN acc
  ELSE [commands |-> Append(acc.commands, command[1]),
        validCommands |-> acc.validCommands + 1,
        max |-> [l \in {"X", "Y", "Z"} |->
                   IF ~Has(command[1].params, l) THEN acc.max[l]
                   ELSE IF acc.max[l] = <<>> \/ command[1].params[l] > acc.max[l][1]
                        THEN <<command[1].params[l]>>
                        ELSE acc.max[l]],
        min |-> [l \in {"X", "Y", "Z"} |->
                   IF ~Has(command[1].params, l) THEN acc.min[l]
                   ELSE IF acc.min[l] = <<>> \/ command[1].params[l] < acc.min[l][1]
                        THEN <<command[1].params[l]>>
                        ELSE acc.min[l]]]

RECURSIVE ParseLines(_, _, _)
\* lines.forEach of parseGCode from line i on, and then its return value; the
\* statistics maxX .. minZ are held as stats.max["X"] .. stats.min["Z"]
ParseLines(acc, lines, i) ==
  IF i > Len(lines)
  THEN [commands |-> acc.commands,
        stats |-> [totalLines |-> Len(lines),
                   validCommands |-> acc.validCommands,
                   max |-> [l \in {"X", "Y", "Z"} |->
                              IF acc.max[l] = <<>> THEN 0 ELSE acc.max[l][1]],
                   min |-> [l \in {"X", "Y", "Z"} |->
                              IF acc.min[l] = <<>> THEN 0 ELSE acc.min[l][1]]]]
  ELSE ParseLines(ParseLineInto(acc, parseCommand(lines[i], i)), lines, i + 1)

\* parseGCode(content)
parseGCode(content) == ParseLines(ParseStart, SplitOn(content, "\n", 1, <<>>), 1)

\* the test of validateGCode's loop over parts: /^[GMT]\d+$/ (digits only,
\* at least one) or /^[XYZEFHSIJKR][-+]?\d*\.?\d*$/ (after an optional sign
\* only digits and at most one point)
ValidPart(part) ==
  \/ /\ part[1] \in {"G", "M", "T"}
     /\ Len(part) >= 2
     /\ DigitPrefixLen(part, 2) = Len(part) - 1
  \/ /\ part[1] \in ParamLetters
     /\ \A i \in (2 + SignLen(Tail1(part)))..Len(part) :
           part[i] = "." \/ DigitPrefixLen(part, i) > 0
     /\ Cardinality({i \in 2..Len(part) : part[i] = "."}) <= 1

\* match[2] of /^(N\d+\s+)?(.+)$/ on a trimmed, non-empty line: the line
\* without a leading N, digits and blanks when more follows them
InstructionPart(cleanLine) ==
  IF /\ cleanLine[1] = "N"
     /\ DigitPrefixLen(cleanLine, 2) >= 1
     /\ DigitPrefixLen(cleanLine, 2) + 2 <= Len(cleanLine)
     /\ cleanLine[DigitPrefixLen(cleanLine, 2) + 2] = " "
  THEN TrimLeft(SubSeq(cleanLine, DigitPrefixLen(cleanLine, 2) + 2, Len(cleanLine)))
  ELSE cleanLine

RECURSIVE FirstInvalid(_, _, _)
\* the loop over parts from part i on: the message pushed at the first part
\* that fails the test, after which the callback returns; a message is held
\* as the line number it cites, its wording and the text it quotes
FirstInvalid(parts, i, index) ==
  IF i > Len(parts) THEN <<>>
  ELSE IF Len(parts[i]) > 0 /\ ValidPart(parts[i])
       THEN FirstInvalid(parts, i + 1, index)
       ELSE << [line |-> index + 1, kind |-> "invalid", text |-> parts[i]] >>

\* a callback that takes a leading line index for a part like any other
LineErrors_IndexIsPart(cleanLine, index) ==
  IF Len(cleanLine) = 0 THEN <<>>
  ELSE FirstInvalid(SplitSpaces(cleanLine, 1, <<>>), 1, index)

\* what the forEach callback of validateGCode pushes for a line whose
\* comment-stripped, trimmed text is cleanLine (the pattern always matches it
\* and it always has a part, so the other two messages are never pushed)
LineErrors(cleanLine, index) ==
  IF Len(cleanLine) = 0 THEN <<>>
  ELSE FirstInvalid(SplitSpaces(InstructionPart(cleanLine), 1, <<>>), 1, index)

RECURSIVE ValidateLines(_, _)
\* lines.forEach of validateGCode, from the line of 0-based index on
ValidateLines(lines, index) ==
  IF index >= Len(lines) THEN <<>>
  ELSE LineErrors(TrimRight(TrimLeft(BeforeSemicolon(lines[index + 1], 1))), index)
         \o ValidateLines(lines, index + 1)

\* validateGCode(content)
validateGCode(content) ==
  [isValid |-> Len(ValidateLines(SplitOn(content, "\n", 1, <<>>), 0)) = 0,
   errors |-> ValidateLines(SplitOn(content, "\n", 1, <<>>), 0)]

(***************************************************************************)
(* ParseSpec: parseCommand applied to one line.  The lines are written     *)
(* from at most MaxTokens parts, either plainly (single blanks) or         *)
(* decorated (leading blank, double blanks, trailing comment).             *)
(***************************************************************************)
MaxTokens == 2

RECURSIVE Join(_, _, _)
\* the parts from i on, separated by sep
Join(ts, i, sep) ==
  IF i > Len(ts) THEN <<>>
  ELSE IF i = Len(ts) THEN ts[i]
  ELSE ts[i] \o sep \o Join(ts, i + 1, sep)

ParseInit ==
  /\ GenInit
  /\ FramesIdle
  /\ tokens \in (UNION {[1..n ->
                   ({ <<"G", "0">>,
                     <<"G", "1">>,
                     <<"G", "2", "8">>,
                     <<"M", "1", "0", "4">>,
                     <<"T", "1">>,
                     <<"X", "1", "0">>,
                     <<"Y", "0">>,
                     <<"E", "5">>,
                     <<"F", "1", "0", "0", "0">>,
                     <<"S", "2", "0", "0">>,
                     <<"X", "A", "B", "C">>,
                     <<"N", "5">>,
                     <<"x", "1", ".", "5">>,
                     <<"Z", "-", "2">> })] : n \in 0..MaxTokens})
  /\ rawLine \in { Join(tokens, 1, <<" ">>),
                   <<" ">> \o Join(tokens, 1, <<" ", " ">>)
                           \o <<" ", ";", "c", " ", "X", "9">> }
  /\ parsed = <<>>
  /\ ppc = "input"
  /\ (/\ rawContent = <<>>
      /\ parseResult = <<>>
      /\ validationErrors = <<>>
      /\ isParsing = FALSE
      /\ pendingParses = <<>>
      /\ storeCalls = 0
      /\ parses = <<>>
      /\ spc = "idle")

\* parseCommand(line, 1)
ParseLine ==
  /\ ppc = "input"
  /\ parsed' = parseCommand(rawLine, 1)
  /\ ppc' = "parsed"
  /\ UNCHANGED <<tokens, rawLine>>
  /\ UNCHANGED <<rawContent, parseResult, validationErrors, isParsing>>
  /\ UNCHANGED <<pendingParses, storeCalls, parses, spc>>
  /\ UNCHANGED <<genVars, pc, commands, returned, lastCommand, frameVars>>

ParseSpec == ParseInit /\ [][ParseLine]_vars

(***************************************************************************)
(* DocSpec: validateGCode and parseGCode applied to one document of at     *)
(* most MaxLines lines.                                                    *)
(***************************************************************************)
MaxLines == 2

\* the documents of 0..MaxLines lines joined by line feeds
Documents ==
  UNION { { Join(ls, 1, <<"\n">>) : ls \in [1..n ->
    { <<>>,
      <<"G", "1", " ", "X", "1", "0", " ", "Z", "-", "2">>,
      <<"G", "0", " ", "X", "-", "3", " ", "Y", "4">>,
      <<"G", "1", " ", "X", "A", "B", "C">>,
      <<"N", "5", " ", "G", "1", " ", "Y", "7", " ", "Q", "2">>,
      <<" ", "M", "1", "0", "4", " ", "S", "2", "0", "0",
        " ", ";", " ", "h", "e", "a", "t">>,
      <<"G", "1", " ", "X", "A", " ", "Y", "B">>,
      <<"N", "7">>,
      <<"g", "1", " ", "X", "1", ".", "5">> }] } : n \in 0..MaxLines }

DocInit ==
  /\ GenInit
  /\ FramesIdle
  /\ tokens = <<>>
  /\ rawLine = <<>>
  /\ parsed = <<>>
  /\ ppc = "idle"
  /\ rawContent \in Documents
  /\ parseResult = <<>>
  /\ validationErrors = <<>>
  /\ isParsing = FALSE
  /\ pendingParses = <<>>
  /\ storeCalls = 0
  /\ parses = <<>>
  /\ spc = "doc"

\* validateGCode(rawContent); the outcome is kept in parses
ValidateDocument ==
  /\ spc = "doc"
  /\ spc' = "validated"
  /\ validationErrors' = validateGCode(rawContent).errors
  /\ parses' = <<validateGCode(rawContent).isValid>>
  /\ UNCHANGED <<rawContent, parseResult, isParsing, pendingParses, storeCalls>>
  /\ UNCHANGED <<tokens, rawLine, parsed, ppc>>
  /\ UNCHANGED <<genVars, pc, commands, returned, lastCommand, frameVars>>

\* parseGCode(rawContent)
ParseDocument ==
  /\ spc = "validated"
  /\ spc' = "parsed"
  /\ parseResult' = <<parseGCode(rawContent)>>
  /\ UNCHANGED <<rawContent, validationErrors, isParsing, pendingParses, storeCalls, parses>>
  /\ UNCHANGED <<tokens, rawLine, parsed, ppc>>
  /\ UNCHANGED <<genVars, pc, commands, returned, lastCommand, frameVars>>

DocSpec == DocInit /\ [][ValidateDocument \/ ParseDocument]_vars

(***************************************************************************)
(* StoreSpec: the actions of the gcode store called in any order, at most  *)
(* MaxStoreCalls times.  parseContent is suspended at its await and        *)
(* resumed in a later step, with other calls in between.                   *)
(***************************************************************************)
MaxStoreCalls == 6

StoreInit ==
  /\ GenInit
  /\ FramesIdle
  /\ tokens = <<>>
  /\ rawLine = <<>>
  /\ parsed = <<>>
  /\ ppc = "idle"
  /\ rawContent = <<>>
  /\ parseResult = <<>>
  /\ validationErrors = <<>>
  /\ isParsing = FALSE
  /\ pendingParses = <<>>
  /\ storeCalls = 0
  /\ parses = <<>>
  /\ spc = "store"

\* what no action of the store touches
StoreFrame ==
  /\ UNCHANGED <<tokens, rawLine, parsed, ppc, spc>>
  /\ UNCHANGED <<genVars, pc, commands, returned, lastCommand, frameVars>>

\* setContent(content)
setContent(content) ==
  /\ spc = "store"
  /\ storeCalls < MaxStoreCalls
  /\ storeCalls' = storeCalls + 1
  /\ rawContent' = content
  /\ validationErrors' = validateGCode(content).errors
  /\ UNCHANGED <<parseResult, isParsing, pendingParses, parses>>
  /\ StoreFrame

\* validateContent()
validateContent ==
  /\ spc = "store"
  /\ storeCalls < MaxStoreCalls
  /\ storeCalls' = storeCalls + 1
  /\ validationErrors' = validateGCode(rawContent).errors
  /\ UNCHANGED <<rawContent, parseResult, isParsing, pendingParses, parses>>
  /\ StoreFrame

\* parseContent() up to its await: with empty content it returns null at
\* once, else it sets isParsing and waits for the timer
parseContent ==
  /\ spc = "store"
  /\ storeCalls < MaxStoreCalls
  /\ storeCalls' = storeCalls + 1
  /\ IF Len(rawContent) = 0
     THEN UNCHANGED <<isParsing, pendingParses>>
     ELSE isParsing' = TRUE /\ pendingParses' = Append(pendingParses, rawContent)
  /\ UNCHANGED <<rawContent, parseResult, validationErrors, parses>>
  /\ StoreFrame

\* parseContent() after its await, for the call whose timer fires first:
\* validateContent(), parseGCode on the content as it is now, and isParsing
\* cleared in the finally block; the generator it builds is its own and is
\* dropped
ParseContentResume ==
  /\ spc = "store"
  /\ Len(pendingParses) > 0
  /\ pendingParses' = Tail(pendingParses)
  /\ validationErrors' = validateGCode(rawContent).errors
  /\ IF validateGCode(rawContent).isValid
     THEN /\ parseResult' = <<parseGCode(rawContent)>>
          /\ parses' = Append(parses, [content |-> rawContent, result |-> parseGCode(rawContent)])
     ELSE UNCHANGED <<parseResult, parses>>
  /\ isParsing' = FALSE
  /\ UNCHANGED <<rawContent, storeCalls>>
  /\ StoreFrame

\* a clearContent that leaves the validation errors as they are
clearContent_KeepErrors ==
  /\ spc = "store"
  /\ storeCalls < MaxStoreCalls
  /\ storeCalls' = storeCalls + 1
  /\ rawContent' = <<>>
  /\ parseResult' = <<>>
  /\ UNCHANGED <<validationErrors, isParsing, pendingParses, parses>>
  /\ StoreFrame

\* clearContent()
clearContent ==
  /\ spc = "store"
  /\ storeCalls < MaxStoreCalls
  /\ storeCalls' = storeCalls + 1
  /\ rawContent' = <<>>
  /\ parseResult' = <<>>
  /\ validationErrors' = <<>>
  /\ UNCHANGED <<isParsing, pendingParses, parses>>
  /\ StoreFrame

StoreNext ==
  \/ \E content \in ({ <<>>,
                       <<"G", "1", " ", "X", "1", "0">>,
                       <<"G", "0", " ", "X", "2", "0", "\n", "G", "1", " ", "Y", "5">>,
                       <<"G", "1", " ", "X", "A", "B", "C">> }) : setContent(content)
  \/ validateContent
  \/ parseContent
  \/ ParseContentResume
  \/ clearContent

StoreSpec == StoreInit /\ [][StoreNext]_vars


\* C10: a line that starts with an explicit G code followed only by parameters
\* keeps the type of that code: it is parsed with the type that the code
\* alone is parsed with ('G0 X10' has the type of 'G0').
ExplicitCodeKeepsType ==
  (/\ ppc = "parsed"
   /\ Len(tokens) >= 2
   /\ ((tokens[1])[1] = "G" /\ parseInt(Tail1((tokens[1]))) # <<>>)
   /\ \A i \in 2..Len(tokens) :
        /\ toUpperCase(tokens[i])[1] \in ParamLetters
        /\ parseInt(Tail1(tokens[i])) # <<>>)
    => /\ Len(parsed) = 1
       /\ parsed[1].type = parseCommand(tokens[1], 1)[1].type

(***************************************************************************)
(* Fixed-point arithmetic for the frame synthesizer.  JavaScript numbers   *)
(* are held as integers: lengths and frame positions in hundredths of a    *)
(* millimetre (LUnit), the sample points of an arc in ten-thousandths      *)
(* (FUnit), angles in 1e-4 rad (AUnit), sines and cosines in 1e-4, times   *)
(* in 1e-4 s (TUnit).  Every division rounds to nearest, as every          *)
(* floating-point operation does.                                          *)
(***************************************************************************)
LUnit == 100

FUnit == 10000

AUnit == 10000

TUnit == 10000

\* Math.PI in AUnit
Pi == 31416

TwoPi == 2 * Pi

HalfPi == Pi \div 2

Abs(x) == IF x < 0 THEN -x ELSE x

Max(a, b) == IF a >= b THEN a ELSE b

\* a / b rounded to nearest, b > 0
RoundDiv(a, b) == (2 * a + b) \div (2 * b)

\* Math.ceil(a / b), b > 0
CeilDiv(a, b) == -((-a) \div b)

RECURSIVE SqrtSearch(_, _, _)
\* the largest r in lo..hi with r * r <= n
SqrtSearch(n, lo, hi) ==
  IF lo >= hi THEN lo
  ELSE LET mid == (lo + hi + 1) \div 2
       IN IF mid * mid <= n THEN SqrtSearch(n, mid, hi)
          ELSE SqrtSearch(n, lo, mid - 1)

\* Math.sqrt(n) rounded to nearest
Sqrt(n) ==
  LET r == SqrtSearch(n, 0, 46340)
  IN IF n - r * r > r THEN r + 1 ELSE r

\* Vector3.distanceTo on vectors in one unit, in that unit
Distance(p, q) ==
  Sqrt((p[1] - q[1]) * (p[1] - q[1]) + (p[2] - q[2]) * (p[2] - q[2])
         + (p[3] - q[3]) * (p[3] - q[3]))

\* atan(2^-i) in AUnit, i = 0..13
AtanTable == <<7854, 4636, 2450, 1244, 624, 312, 156, 78, 39, 20, 10, 5, 2, 1>>

RECURSIVE Pow2(_)
Pow2(i) == IF i = 0 THEN 1 ELSE 2 * Pow2(i - 1)

RECURSIVE Cordic(_, _, _)
\* the angle of the vector (x, y), x > 0, |y| <= x, by CORDIC vectoring
Cordic(x, y, i) ==
  IF i >= Len(AtanTable) \/ y = 0 THEN 0
  ELSE IF y > 0
       THEN AtanTable[i + 1]
              + Cordic(x + y \div Pow2(i), y - x \div Pow2(i), i + 1)
       ELSE Cordic(x - y \div Pow2(i), y + x \div Pow2(i), i + 1)
              - AtanTable[i + 1]

\* atan of off / base for base > 0, |off| <= base
OctantAngle(base, off) == Cordic(base * 256, off * 256, 0)

\* Math.atan2(y, x), in (-Pi, Pi]; atan2(0, 0) = 0
atan2(y, x) ==
  IF x = 0 /\ y = 0 THEN 0
  ELSE IF x > 0 /\ Abs(y) <= x THEN OctantAngle(x, y)
  ELSE IF y > 0 /\ Abs(x) <= y THEN HalfPi - OctantAngle(y, x)
  ELSE IF y < 0 /\ Abs(x) <= -y THEN OctantAngle(-y, x) - HalfPi
  ELSE IF y >= 0 THEN Pi - OctantAngle(-x, y)
  ELSE -Pi - OctantAngle(-x, y)

\* sin of x in 0..HalfPi by its Taylor series, in 1e-4
SinSeries(x) ==
  LET x2 == RoundDiv(x * x, AUnit)
      t3 == RoundDiv(x * x2, 6 * AUnit)
      t5 == RoundDiv(t3 * x2, 20 * AUnit)
      t7 == RoundDiv(t5 * x2, 42 * AUnit)
      t9 == RoundDiv(t7 * x2, 72 * AUnit)
  IN x - t3 + t5 - t7 + t9

\* cos of x in 0..HalfPi by its Taylor series, in 1e-4
CosSeries(x) ==
  LET x2 == RoundDiv(x * x, AUnit)
      c2 == RoundDiv(x2, 2)
      c4 == RoundDiv(c2 * x2, 12 * AUnit)
      c6 == RoundDiv(c4 * x2, 30 * AUnit)
      c8 == RoundDiv(c6 * x2, 56 * AUnit)
      c10 == RoundDiv(c8 * x2, 90 * AUnit)
  IN AUnit - c2 + c4 - c6 + c8 - c10

\* <<Math.cos(angle), Math.sin(angle)>> in 1e-4, by quadrant
CosSin(angle) ==
  LET a == angle % TwoPi
      q == a \div HalfPi
      r == a % HalfPi
      c == CosSeries(r)
      sn == SinSeries(r)
  IN CASE q = 0 -> <<c, sn>>
       [] q = 1 -> <<-sn, c>>
       [] q = 2 -> <<-c, -sn>>
       [] q = 3 -> <<sn, -c>>
       [] OTHER -> <<c, sn>>

(***************************************************************************)
(* The frame synthesizer, calculateAnimationFrames of GCodeViewer.vue.     *)
(* PathPoint positions are whole millimetres; frame positions are in       *)
(* LUnit.  The accumulator acc = [frames, currentTime, lastPosition] holds *)
(* the three locals of the function; lastPosition is <<>> while null.      *)
(***************************************************************************)
ArcTypes == {"G2", "G3"}

MoveTypes == {"G0", "G1", "G2", "G3"}

\* a PathPoint position in LUnit
ToL(position) == <<position[1] * LUnit, position[2] * LUnit, position[3] * LUnit>>

\* `point.params?.I ?? 0` in whole millimetres
ArcOffset(point, letter) ==
  IF "params" \in DOMAIN point /\ Has(point.params, letter)
  THEN point.params[letter] ELSE 0

\* segmentLength / speedInMmPerSecond, in TUnit
Duration(segmentLength, speed) ==
  RoundDiv(segmentLength * 60 * (TUnit \div LUnit), speed)

\* the frames.push loop of a straight pair and the updates of currentTime
\* and lastPosition behind it; duration is segmentLength / speedInMmPerSecond
PushLineFrames(acc, p1, p2, numFrames, duration, segmentIndex, pointIndex) ==
  [frames |->
     acc.frames \o
       [k \in 1..(numFrames + 1) |->
          [position |-> <<p1[1] + RoundDiv((p2[1] - p1[1]) * (k - 1), numFrames),
                          p1[2] + RoundDiv((p2[2] - p1[2]) * (k - 1), numFrames),
                          p1[3] + RoundDiv((p2[3] - p1[3]) * (k - 1), numFrames)>>,
           segmentIndex |-> segmentIndex,
           pointIndex |-> pointIndex,
           time |-> acc.currentTime + RoundDiv(duration, numFrames) * (k - 1)]],
   currentTime |-> acc.currentTime + duration,
   lastPosition |-> p2]

\* the sweep THREE.EllipseCurve.getPoint derives from its start and end
\* angles and its clockwise flag
EllipseDelta(aStartAngle, aEndAngle, aClockwise) ==
  LET d0 == aEndAngle - aStartAngle
      samePoints == d0 = 0
      d1 == d0 % TwoPi
      d2 == IF d0 > 0 /\ d1 = 0 THEN TwoPi ELSE d1
      d3 == IF d2 = 0 THEN (IF samePoints THEN 0 ELSE TwoPi) ELSE d2
  IN IF aClockwise /\ ~samePoints
     THEN (IF d3 = TwoPi THEN -TwoPi ELSE d3 - TwoPi)
     ELSE d3

\* new THREE.EllipseCurve(cx, cy, radius, radius, aStartAngle, aEndAngle,
\* aClockwise, 0), cx, cy and radius in LUnit
EllipseCurve(cx, cy, radius, aStartAngle, aEndAngle, aClockwise) ==
  [aX |-> cx, aY |-> cy, radius |-> radius, aStartAngle |-> aStartAngle,
   deltaAngle |-> EllipseDelta(aStartAngle, aEndAngle, aClockwise)]

\* the point of arcCurve at the angle whose cosine and sine are cs
PointAtAngle(arcCurve, cs) ==
  <<arcCurve.aX * (FUnit \div LUnit)
      + RoundDiv(arcCurve.radius * cs[1], AUnit \div (FUnit \div LUnit)),
    arcCurve.aY * (FUnit \div LUnit)
      + RoundDiv(arcCurve.radius * cs[2], AUnit \div (FUnit \div LUnit))>>

\* arcCurve.getPoint(i / n): <<x, y>> in FUnit
ArcPoint(arcCurve, i, n) ==
  PointAtAngle(arcCurve,
               CosSin(arcCurve.aStartAngle + RoundDiv(arcCurve.deltaAngle * i, n)))

\* points[hi].distanceTo(points[lo]) for two of the points of getPoints
Chord(a, b) == Distance(<<a[1], a[2], 0>>, <<b[1], b[2], 0>>)

RECURSIVE ChordSum(_, _, _, _)
\* the sum over i = lo + 1 .. hi of points[i].distanceTo(points[i - 1]) for
\* points = arcCurve.getPoints(n), in FUnit, added up by halves of the range
ChordSum(arcCurve, lo, hi, n) ==
  IF hi <= lo THEN 0
  ELSE IF hi = lo + 1
  THEN Chord(ArcPoint(arcCurve, hi, n), ArcPoint(arcCurve, lo, n))
  ELSE ChordSum(arcCurve, lo, (lo + hi) \div 2, n)
         + ChordSum(arcCurve, (lo + hi) \div 2, hi, n)

\* the frames.push loop of an arc pair and the updates of currentTime and
\* lastPosition behind it
PushArcFrames(acc, p1, p2, arcCurve, numFrames, duration, segmentIndex, pointIndex) ==
  [frames |->
     acc.frames \o
       [k \in 1..(numFrames + 1) |->
          [position |->
             <<RoundDiv(ArcPoint(arcCurve, k - 1, numFrames)[1], FUnit \div LUnit),
               RoundDiv(ArcPoint(arcCurve, k - 1, numFrames)[2], FUnit \div LUnit),
               p1[3] + RoundDiv((p2[3] - p1[3]) * (k - 1), numFrames)>>,
           segmentIndex |-> segmentIndex,
           pointIndex |-> pointIndex,
           time |-> acc.currentTime + RoundDiv(duration, numFrames) * (k - 1)]],
   currentTime |-> acc.currentTime + duration,
   lastPosition |-> p2]

\* an arc pair whose frame times are counted from 0
ArcOfLength_FromZero(acc, p1, p2, arcCurve, segmentLength, segmentIndex, pointIndex, speed) ==
  PushArcFrames([acc EXCEPT !.currentTime = 0], p1, p2, arcCurve,
                Max(50, CeilDiv(segmentLength * 2, LUnit)),
                Duration(segmentLength, speed), segmentIndex, pointIndex)

\* an arc pair along arcCurve of length segmentLength
ArcOfLength(acc, p1, p2, arcCurve, segmentLength, segmentIndex, pointIndex, speed) ==
  PushArcFrames(acc, p1, p2, arcCurve, Max(50, CeilDiv(segmentLength * 2, LUnit)),
                Duration(segmentLength, speed), segmentIndex, pointIndex)

\* an arc pair along arcCurve, measured by numPoints chords
ArcAlong(acc, p1, p2, arcCurve, numPoints, segmentIndex, pointIndex, speed) ==
  ArcOfLength(acc, p1, p2, arcCurve,
              RoundDiv(ChordSum(arcCurve, 0, numPoints, numPoints), FUnit \div LUnit),
              segmentIndex, pointIndex, speed)

\* endAngle - startAngle turned into the sweep of the given direction
AngleDiff(startAngle, endAngle, isClockwise) ==
  IF isClockwise
  THEN (IF endAngle - startAngle >= 0 THEN endAngle - startAngle - TwoPi
        ELSE endAngle - startAngle)
  ELSE (IF endAngle - startAngle <= 0 THEN endAngle - startAngle + TwoPi
        ELSE endAngle - startAngle)

\* an arc pair of the given radius that sweeps angleDiff from startAngle
ArcSwept(acc, p1, p2, center, radius, startAngle, angleDiff, isClockwise, segmentIndex, pointIndex, speed) ==
  ArcAlong(acc, p1, p2,
           EllipseCurve(center[1], center[2], radius, startAngle,
                        startAngle + angleDiff, isClockwise),
           Max(50, CeilDiv(Abs(angleDiff) * radius * 2, AUnit * LUnit)),
           segmentIndex, pointIndex, speed)

\* an arc pair around center
ArcAround(acc, p1, p2, center, startAngle, endAngle, isClockwise, segmentIndex, pointIndex, speed) ==
  ArcSwept(acc, p1, p2, center, Distance(p1, center), startAngle,
           AngleDiff(startAngle, endAngle, isClockwise), isClockwise,
           segmentIndex, pointIndex, speed)

\* an arc pair whose center is center
ArcWithCenter(acc, p1, p2, center, isClockwise, segmentIndex, pointIndex, speed) ==
  ArcAround(acc, p1, p2, center,
            atan2(p1[2] - center[2], p1[1] - center[1]),
            atan2(p2[2] - center[2], p2[1] - center[1]),
            isClockwise, segmentIndex, pointIndex, speed)

\* the numFrames + 1 frames of an arc pair with offsets (i, j) in whole
\* millimetres, and the locals after it
ArcFrames(acc, p1, p2, i, j, isClockwise, segmentIndex, pointIndex, speed) ==
  ArcWithCenter(acc, p1, p2, <<p1[1] + i * LUnit, p1[2] + j * LUnit, p1[3]>>,
                isClockwise, segmentIndex, pointIndex, speed)

\* one point pair of a segment; arcPoint is the point whose params give I, J
PairFrames(acc, segment, p1, p2, arcPoint, segmentIndex, pointIndex, speed) ==
  IF segment.type \in ArcTypes
  THEN ArcFrames(acc, p1, p2, ArcOffset(arcPoint, "I"), ArcOffset(arcPoint, "J"),
                 segment.type = "G2", segmentIndex, pointIndex, speed)
  ELSE PushLineFrames(acc, p1, p2, Max(10, CeilDiv(Distance(p1, p2) * 2, LUnit)),
                      Duration(Distance(p1, p2), speed), segmentIndex, pointIndex)

RECURSIVE MultiPointFrames(_, _, _, _, _)
\* the loop over pointIndex (0-based) of a segment with several points
MultiPointFrames(acc, segment, segmentIndex, pointIndex, speed) ==
  IF pointIndex >= Len(segment.points) - 1 THEN acc
  ELSE MultiPointFrames(
         PairFrames(acc, segment,
                    ToL(segment.points[pointIndex + 1].position),
                    ToL(segment.points[pointIndex + 2].position),
                    segment.points[pointIndex + 1],
                    segmentIndex, pointIndex, speed),
         segment, segmentIndex, pointIndex + 1, speed)

\* the body of segments.forEach for one segment (segmentIndex 0-based)
SegmentFrames(acc, segment, segmentIndex, speed) ==
  IF segment.type \notin MoveTypes THEN acc
  ELSE IF Len(segment.points) = 1
  THEN IF acc.lastPosition = <<>>
       THEN [frames |-> Append(acc.frames,
                               [position |-> ToL(segment.points[1].position),
                                segmentIndex |-> segmentIndex,
                                pointIndex |-> 0,
                                time |-> acc.currentTime]),
             currentTime |-> acc.currentTime,
             lastPosition |-> ToL(segment.points[1].position)]
       ELSE PairFrames(acc, segment, acc.lastPosition,
                       ToL(segment.points[1].position), segment.points[1],
                       segmentIndex, 0, speed)
  ELSE MultiPointFrames(acc, segment, segmentIndex, 0, speed)

RECURSIVE AllSegmentFrames(_, _, _, _)
\* segments.forEach from the segment with 0-based index segmentIndex on
AllSegmentFrames(acc, segs, segmentIndex, speed) ==
  IF segmentIndex >= Len(segs) THEN acc
  ELSE AllSegmentFrames(
         SegmentFrames(acc, segs[segmentIndex + 1], segmentIndex, speed),
         segs, segmentIndex + 1, speed)

RECURSIVE SortByTime(_, _, _)
\* frames.sort((a, b) => a.time - b.time) for frames with times in lo..hi.
\* The sort is stable: the frames with the smaller times come first, each
\* half in turn sorted, and frames of equal time keep their order.
SortByTime(frames, lo, hi) ==
  IF Len(frames) <= 1 \/ lo >= hi THEN frames
  ELSE LET mid == (lo + hi) \div 2
       IN SortByTime(SelectSeq(frames, LAMBDA f : f.time <= mid), lo, mid)
            \o SortByTime(SelectSeq(frames, LAMBDA f : f.time > mid), mid + 1, hi)

\* frames.sort((a, b) => a.time - b.time)
SortFrames(frames) ==
  IF frames = <<>> THEN frames
  ELSE LET times == {frames[i].time : i \in 1..Len(frames)}
       IN SortByTime(frames, CHOOSE t \in times : \A u \in times : t <= u,
                     CHOOSE t \in times : \A u \in times : u <= t)

\* locals whose lastPosition starts at the origin
EmptyAcc_AtOrigin == [frames |-> <<>>, currentTime |-> 0, lastPosition |-> <<0, 0, 0>>]

\* frames, currentTime and lastPosition (<<>> while null) before the loop
EmptyAcc == [frames |-> <<>>, currentTime |-> 0, lastPosition |-> <<>>]

\* calculateAnimationFrames without its final sort
calculateAnimationFrames_NoSort(segs, speed) ==
  IF Len(segs) = 0 THEN <<>>
  ELSE AllSegmentFrames(EmptyAcc, segs, 0, speed).frames

\* calculateAnimationFrames(segments) while playbackSpeed.value is speed
calculateAnimationFrames(segs, speed) ==
  IF Len(segs) = 0 THEN <<>>
  ELSE SortFrames(AllSegmentFrames(EmptyAcc, segs, 0, speed).frames)

RECURSIVE ValidSegmentsFrom(_, _, _, _)
\* the validSegments updatePath has collected after segs[i..], given those
\* collected before and lastPosition (<<>> while null)
ValidSegmentsFrom(segs, i, valid, lastPosition) ==
  IF i > Len(segs) THEN valid
  ELSE LET segment == segs[i]
           point == segment.points[1]
           n == Len(segment.points)
       IN IF n = 1 /\ lastPosition = <<>>
          THEN ValidSegmentsFrom(segs, i + 1, Append(valid, segment),
                                 point.position)
          ELSE IF n = 1
          THEN ValidSegmentsFrom(
                 segs, i + 1,
                 Append(valid,
                        [segment EXCEPT !.points =
                           << [point EXCEPT !.position = lastPosition,
                                            !.type = segment.type],
                              [point EXCEPT !.type = segment.type] >>]),
                 point.position)
          ELSE ValidSegmentsFrom(segs, i + 1, Append(valid, segment),
                                 segment.points[n].position)

\* the list updatePath stores in state.parsedSegments for the generator's
\* segments
ValidSegments(segs) == ValidSegmentsFrom(segs, 1, <<>>, <<>>)

(***************************************************************************)
(* FramesSpec: calculateAnimationFrames applied to one segment list under  *)
(* one playback speed.  The lists are what a fresh generator returns for   *)
(* up to MaxFrameCmds instructions, as returned and as updatePath stores   *)
(* them.                                                                   *)
(***************************************************************************)
MaxFrameCmds == 2

MIN_SPEED == 50

\* the instruction lists of 0..MaxFrameCmds instructions, numbered from 1
FrameCommandLists ==
  UNION { { [i \in 1..n |-> WithLine(cs[i], i)] : cs \in [1..n ->
    { Cmd("G1", [k \in {"X", "Y", "F"} |->
                  CASE k = "X" -> 10 [] k = "Y" -> 10 [] k = "F" -> 1000]),
      Cmd("G1", [k \in {"X", "E"} |-> IF k = "X" THEN 20 ELSE 5]),
      Cmd("G0", [k \in {"X", "Z"} |-> IF k = "X" THEN 7 ELSE 5]),
      Cmd("G2", [k \in {"X", "Y", "I", "J"} |->
                  CASE k = "X" -> 10 [] k = "Y" -> 0 [] k = "I" -> 5 [] k = "J" -> 0]),
      Cmd("G3", [k \in {"X", "Y", "Z", "I", "J"} |->
                  CASE k = "X" -> 3 [] k = "Y" -> 3 [] k = "Z" -> 2
                    [] k = "I" -> 3 [] k = "J" -> 0]),
      Cmd("G2", [k \in {"X", "Y", "K"} |->
                  CASE k = "X" -> 20 [] k = "Y" -> 10 [] k = "K" -> 5]),
      Cmd("G28", NoParams),
      Cmd("G91", NoParams) }] } : n \in 0..MaxFrameCmds }

\* what new GCodePathGenerator().generatePath(cmds) returns
GeneratedSegments(cmds) ==
  LET g == generatePath(Constructor, cmds) IN Deref(g, g.segments)

FramesInit ==
  /\ GenInit
  /\ ParseIdle
  /\ parsedSegments \in
       { GeneratedSegments(cmds) : cmds \in FrameCommandLists }
         \cup { ValidSegments(GeneratedSegments(cmds)) : cmds \in FrameCommandLists }
  /\ playbackSpeed \in ({MIN_SPEED, 700, DEFAULT_SPEED})
  /\ animationFrames = <<>>
  /\ fpc = "input"
  /\ ViewIdle

\* frames = calculateAnimationFrames(state.parsedSegments.value)
CalculateFrames ==
  /\ fpc = "input"
  /\ animationFrames' = calculateAnimationFrames(parsedSegments, playbackSpeed)
  /\ fpc' = "frames"
  /\ UNCHANGED <<parsedSegments, playbackSpeed, viewVars>>
  /\ UNCHANGED <<genVars, pc, commands, returned, lastCommand, parseVars>>

FramesSpec == FramesInit /\ [][CalculateFrames]_vars

(***************************************************************************)
(* The viewer's playback state: updatePath, togglePlay, resetAnimation,    *)
(* handleSpeedChange and the updateAnimation tick.  Distances are in LUnit, *)
(* speeds in mm/min.                                                       *)
(***************************************************************************)
\* the `if (distance > 0.01)` block of calculateToolHeadDistance for a move
\* from p to q
CountMove(info, p, q) ==
  IF Distance(ToL(p), ToL(q)) > 1
  THEN [info EXCEPT !.totalDistance = @ + Distance(ToL(p), ToL(q)),
                    !.zDistance = @ + Abs(q[3] - p[3]) * LUnit,
                    !.moveCount = @ + 1]
  ELSE info

RECURSIVE PointDistances(_, _, _)
\* segment.points.forEach of calculateToolHeadDistance from point i on
PointDistances(info, points, i) ==
  IF i > Len(points) THEN info
  ELSE IF info.lastPosition = <<>>
  THEN PointDistances([info EXCEPT !.lastPosition = points[i].position], points, i + 1)
  ELSE PointDistances([CountMove(info, info.lastPosition, points[i].position)
                         EXCEPT !.lastPosition = points[i].position], points, i + 1)

RECURSIVE calculateToolHeadDistance(_)
\* calculateToolHeadDistance(segments): the fields calculateAppropriateSpeed
\* reads; an arc of two or more points counts its chord and leaves
\* lastPosition alone
calculateToolHeadDistance(segs) ==
  IF Len(segs) = 0
  THEN [totalDistance |-> 0, zDistance |-> 0, moveCount |-> 0, lastPosition |-> <<>>]
  ELSE IF Last(segs).type \in ArcTypes /\ Len(Last(segs).points) >= 2
  THEN CountMove(calculateToolHeadDistance(Front(segs)),
                 Last(segs).points[1].position, Last(Last(segs).points).position)
  ELSE PointDistances(calculateToolHeadDistance(Front(segs)), Last(segs).points, 1)

TARGET_ANIMATION_DURATION == 30

\* a calibration without the floor at MIN_SPEED
calculateAppropriateSpeed_NoFloor(info, maxSpeed) ==
  LET speedMultiplier ==
        (IF info.zDistance * 10 > 3 * info.totalDistance THEN 8 ELSE 10)
          * (IF info.moveCount > 0 /\ info.totalDistance < LUnit * info.moveCount
             THEN 120
             ELSE IF info.moveCount > 0 /\ info.totalDistance < 5 * LUnit * info.moveCount
             THEN 110 ELSE 100)
      finalSpeed == CeilDiv(info.totalDistance * 60 * speedMultiplier,
                            TARGET_ANIMATION_DURATION * LUnit * 1000 * 100) * 100
  IN IF finalSpeed <= maxSpeed THEN finalSpeed ELSE maxSpeed

\* calculateAppropriateSpeed(distanceInfo) while MAX_SPEED.value is maxSpeed;
\* speedMultiplier is in thousandths, and a comparison with NaN (no counted
\* move) is false
calculateAppropriateSpeed(info, maxSpeed) ==
  LET speedMultiplier ==
        (IF info.zDistance * 10 > 3 * info.totalDistance THEN 8 ELSE 10)
          * (IF info.moveCount > 0 /\ info.totalDistance < LUnit * info.moveCount
             THEN 120
             ELSE IF info.moveCount > 0 /\ info.totalDistance < 5 * LUnit * info.moveCount
             THEN 110 ELSE 100)
      finalSpeed == Max(CeilDiv(info.totalDistance * 60 * speedMultiplier,
                                TARGET_ANIMATION_DURATION * LUnit * 1000 * 100) * 100,
                        MIN_SPEED)
  IN IF finalSpeed <= maxSpeed THEN finalSpeed ELSE maxSpeed

MaxUpdates == 2

\* generator.generatePath(newResult.commands) in the watcher of parseResult,
\* for the programs tried: none, two straight moves, a rapid with a lift, a
\* lone home, an arc and a long straight move after a rapid
ViewerInputs ==
  { GeneratedSegments([i \in 1..Len(cs) |-> WithLine(cs[i], i)]) : cs \in
  { <<>>,
    << Cmd("G1", [k \in {"X", "Y", "F"} |-> CASE k = "X" -> 10 [] k = "Y" -> 10
                                                [] k = "F" -> 1000]),
       Cmd("G1", [k \in {"X", "E"} |-> IF k = "X" THEN 20 ELSE 5]) >>,
    << Cmd("G0", [k \in {"X", "Z"} |-> IF k = "X" THEN 7 ELSE 5]) >>,
    << Cmd("G28", NoParams) >>,
    << Cmd("G1", [k \in {"X"} |-> 4]),
       Cmd("G2", [k \in {"X", "Y", "I", "J"} |->
                    CASE k = "X" -> 10 [] k = "Y" -> 0 [] k = "I" -> 3 [] k = "J" -> 0]) >>,
    << Cmd("G0", [k \in {"X"} |-> 1]), Cmd("G1", [k \in {"X"} |-> 100]) >> } }

\* the component is mounted and initScene has run: startAnimation has called
\* animate once, which requested itself; no path yet
ViewerInit ==
  /\ GenInit
  /\ ParseIdle
  /\ parsedSegments = <<>>
  /\ playbackSpeed = DEFAULT_SPEED
  /\ animationFrames = <<>>
  /\ fpc = "viewer"
  /\ isPlaying = FALSE
  /\ animationFrameId = 2
  /\ tickQueued = FALSE
  /\ renderQueued = TRUE
  /\ currentFrameIndex = 0
  /\ MAX_SPEED = INITIAL_MAX_SPEED
  /\ hasPath = FALSE
  /\ updates = 0
  /\ targetFrameIndex = -1
  /\ toolHead = <<0, 0, 0>>
  /\ controlsEnabled = TRUE

\* what no handler of the viewer touches
ViewerFrame == UNCHANGED <<genVars, pc, commands, returned, lastCommand, parseVars, fpc>>

\* a cancellation that clears the handle and withdraws no request
CancelTick_HandleOnly(tickWaits) ==
  /\ animationFrameId' = 0
  /\ tickQueued' = tickWaits
  /\ UNCHANGED renderQueued

\* `if (animationFrameId !== null) { cancelAnimationFrame(animationFrameId);
\* animationFrameId = null }`: the request whose handle the variable holds is
\* withdrawn; tickWaits tells whether an updateAnimation request waits here
CancelTick(tickWaits) ==
  /\ animationFrameId' = 0
  /\ tickQueued' = (tickWaits /\ animationFrameId # 1)
  /\ renderQueued' = (renderQueued /\ animationFrameId # 2)

\* the browser runs the callbacks of one animation frame in the order they
\* were requested, and runs nothing else between them.  The render loop's
\* request is always older than the tick's (animate renews it before the tick
\* of the same frame renews its own), so animate comes first; a waiting tick
\* while the handle is the render loop's means that animate has just run and
\* the tick of the same frame is still to come
MidFrame == tickQueued /\ animationFrameId = 2

\* updatePath(segments): with no valid segment it throws before any store
updatePath(segs) ==
  /\ fpc = "viewer"
  /\ targetFrameIndex = -1
  /\ ~MidFrame
  /\ updates < MaxUpdates
  /\ updates' = updates + 1
  /\ IF Len(ValidSegments(segs)) = 0
     THEN UNCHANGED <<parsedSegments, playbackSpeed, MAX_SPEED, hasPath, toolHead>>
     ELSE /\ parsedSegments' = ValidSegments(segs)
          /\ playbackSpeed' =
               calculateAppropriateSpeed(calculateToolHeadDistance(ValidSegments(segs)), MAX_SPEED)
          /\ MAX_SPEED' = CeilDiv(playbackSpeed' * 15, 1000) * 100
          /\ hasPath' = TRUE
          /\ toolHead' = ToL(ValidSegments(segs)[1].points[1].position)
  /\ UNCHANGED <<animationFrames, isPlaying, animationFrameId, tickQueued, currentFrameIndex>>
  /\ UNCHANGED <<targetFrameIndex, renderQueued, controlsEnabled>>
  /\ ViewerFrame

\* a togglePlay that resumes from the cached frames when there are any
togglePlay_Resume ==
  /\ fpc = "viewer"
  /\ targetFrameIndex = -1
  /\ ~MidFrame
  /\ hasPath
  /\ isPlaying' = ~isPlaying
  /\ controlsEnabled' = isPlaying
  /\ IF isPlaying
     THEN /\ CancelTick(tickQueued)
          /\ UNCHANGED <<animationFrames, currentFrameIndex, toolHead>>
     ELSE /\ IF Len(animationFrames) # 0
             THEN UNCHANGED <<animationFrames, currentFrameIndex, toolHead>>
             ELSE /\ animationFrames' = calculateAnimationFrames(parsedSegments, playbackSpeed)
                  /\ currentFrameIndex' = 0
                  /\ toolHead' = ToL(parsedSegments[1].points[1].position)
          /\ Len(animationFrames') > 0
          /\ animationFrameId' = 1
          /\ tickQueued' = TRUE
          /\ UNCHANGED renderQueued
  /\ UNCHANGED <<parsedSegments, playbackSpeed, MAX_SPEED, hasPath, updates>>
  /\ UNCHANGED targetFrameIndex
  /\ ViewerFrame

\* togglePlay(), offered while a path is shown
togglePlay ==
  /\ fpc = "viewer"
  /\ targetFrameIndex = -1
  /\ ~MidFrame
  /\ hasPath
  /\ IF isPlaying
     THEN /\ isPlaying' = FALSE
          /\ controlsEnabled' = TRUE
          /\ CancelTick(tickQueued)
          /\ UNCHANGED <<animationFrames, currentFrameIndex, toolHead>>
     ELSE IF Len(parsedSegments) = 0 \/ Len(parsedSegments[1].points) = 0
               \/ Len(animationFrames) # 0
               \/ Len(calculateAnimationFrames(parsedSegments, playbackSpeed)) = 0
          THEN /\ UNCHANGED <<animationFrames, currentFrameIndex, isPlaying>>
               /\ UNCHANGED <<animationFrameId, tickQueued, renderQueued>>
               /\ UNCHANGED <<toolHead, controlsEnabled>>
          ELSE /\ animationFrames' = calculateAnimationFrames(parsedSegments, playbackSpeed)
               /\ currentFrameIndex' = 0
               /\ toolHead' = ToL(parsedSegments[1].points[1].position)
               /\ controlsEnabled' = FALSE
               /\ isPlaying' = TRUE
               /\ animationFrameId' = 1
               /\ tickQueued' = TRUE
               /\ UNCHANGED renderQueued
  /\ UNCHANGED <<parsedSegments, playbackSpeed, MAX_SPEED, hasPath, updates>>
  /\ UNCHANGED targetFrameIndex
  /\ ViewerFrame

\* resetAnimation(), offered while a path is shown and nothing plays
resetAnimation ==
  /\ fpc = "viewer"
  /\ targetFrameIndex = -1
  /\ ~MidFrame
  /\ hasPath
  /\ ~isPlaying
  /\ IF Len(parsedSegments) = 0
     THEN /\ UNCHANGED <<animationFrames, currentFrameIndex, isPlaying, toolHead>>
          /\ UNCHANGED <<animationFrameId, tickQueued, renderQueued>>
     ELSE /\ isPlaying' = FALSE
          /\ CancelTick(tickQueued)
          /\ animationFrames' = <<>>
          /\ currentFrameIndex' = 0
          /\ toolHead' = ToL(parsedSegments[1].points[1].position)
  /\ UNCHANGED <<parsedSegments, playbackSpeed, MAX_SPEED, hasPath, updates>>
  /\ UNCHANGED <<targetFrameIndex, controlsEnabled>>
  /\ ViewerFrame

\* handleSpeedChange(newSpeed) from the slider between MIN_SPEED and MAX_SPEED
handleSpeedChange(newSpeed) ==
  /\ fpc = "viewer"
  /\ targetFrameIndex = -1
  /\ ~MidFrame
  /\ hasPath
  /\ newSpeed <= MAX_SPEED
  /\ playbackSpeed' = newSpeed
  /\ UNCHANGED <<parsedSegments, animationFrames, isPlaying, animationFrameId, tickQueued>>
  /\ UNCHANGED <<currentFrameIndex, MAX_SPEED, hasPath, updates, targetFrameIndex>>
  /\ UNCHANGED <<renderQueued, toolHead, controlsEnabled>>
  /\ ViewerFrame

\* animate(time), the render loop's requestAnimationFrame callback: it
\* requests itself and stores the handle; pendingSegments is always empty
animate ==
  /\ fpc = "viewer"
  /\ targetFrameIndex = -1
  /\ renderQueued
  /\ ~MidFrame
  /\ animationFrameId' = 2
  /\ UNCHANGED <<parsedSegments, playbackSpeed, animationFrames, isPlaying, tickQueued>>
  /\ UNCHANGED <<currentFrameIndex, MAX_SPEED, hasPath, updates, targetFrameIndex>>
  /\ UNCHANGED <<renderQueued, toolHead, controlsEnabled>>
  /\ ViewerFrame

\* updateAnimation past its first-run block, up to its while loop: index is
\* the cursor, frames the frame list and elapsed is
\* Math.floor(elapsedTime / FRAME_TIME); the target is min(elapsed, last)
ShowFrames(frames, index, elapsed) ==
  IF elapsed >= Len(frames) - 1
  THEN /\ toolHead' = Last(frames).position
       /\ isPlaying' = FALSE
       /\ currentFrameIndex' = index
       /\ CancelTick(FALSE)
       /\ UNCHANGED targetFrameIndex
  ELSE /\ targetFrameIndex' = elapsed
       /\ currentFrameIndex' = index
       /\ tickQueued' = FALSE
       /\ UNCHANGED <<isPlaying, animationFrameId, renderQueued, toolHead>>

\* the early return of updateAnimation: `!isPlaying.value || !toolHead ||
\* !scene || !state.parsedSegments.value.length`
NotPlaying == ~isPlaying \/ Len(parsedSegments) = 0

\* updateAnimation(time), the requestAnimationFrame callback, up to its while
\* loop; elapsed is the whole frame times since the start time; in its
\* first-run block the frames are computed and this tick becomes the start
\* time; it runs behind animate when the render loop's request waits too
updateAnimation(elapsed) ==
  /\ fpc = "viewer"
  /\ targetFrameIndex = -1
  /\ tickQueued
  /\ renderQueued => MidFrame
  /\ IF NotPlaying
     THEN /\ CancelTick(FALSE)
          /\ UNCHANGED <<animationFrames, currentFrameIndex, isPlaying>>
          /\ UNCHANGED <<targetFrameIndex, toolHead>>
     ELSE IF Len(animationFrames) = 0
               /\ Len(calculateAnimationFrames(parsedSegments, playbackSpeed)) = 0
          THEN /\ isPlaying' = FALSE
               /\ tickQueued' = FALSE
               /\ UNCHANGED <<animationFrames, currentFrameIndex, animationFrameId>>
               /\ UNCHANGED <<targetFrameIndex, renderQueued, toolHead>>
          ELSE IF Len(animationFrames) = 0
          THEN /\ animationFrames' = calculateAnimationFrames(parsedSegments, playbackSpeed)
               /\ ShowFrames(calculateAnimationFrames(parsedSegments, playbackSpeed), 0, 0)
          ELSE /\ UNCHANGED animationFrames
               /\ ShowFrames(animationFrames, currentFrameIndex, elapsed)
  /\ UNCHANGED <<parsedSegments, playbackSpeed, MAX_SPEED, hasPath, updates>>
  /\ UNCHANGED controlsEnabled
  /\ ViewerFrame

\* a while loop that runs up to the last frame whatever the target is
MoreFrames_ToTheEnd == currentFrameIndex < Len(animationFrames) - 1

\* the condition of updateAnimation's while loop
MoreFrames ==
  /\ currentFrameIndex < targetFrameIndex
  /\ currentFrameIndex < Len(animationFrames) - 1

\* one iteration of the while loop of updateAnimation: the tool head goes to
\* the frame at the cursor, and every path through the body ends in
\* state.currentFrameIndex.value++
AdvanceFrame ==
  /\ fpc = "viewer"
  /\ targetFrameIndex >= 0
  /\ MoreFrames
  /\ toolHead' = animationFrames[currentFrameIndex + 1].position
  /\ currentFrameIndex' = currentFrameIndex + 1
  /\ UNCHANGED <<animationFrames, isPlaying, animationFrameId, tickQueued, targetFrameIndex>>
  /\ UNCHANGED <<parsedSegments, playbackSpeed, MAX_SPEED, hasPath, updates>>
  /\ UNCHANGED <<renderQueued, controlsEnabled>>
  /\ ViewerFrame

\* a tick that ends without requesting the next one
RequestNextTick_NoRequest ==
  /\ fpc = "viewer"
  /\ targetFrameIndex >= 0
  /\ ~MoreFrames
  /\ targetFrameIndex' = -1
  /\ UNCHANGED <<animationFrames, isPlaying, currentFrameIndex, animationFrameId>>
  /\ UNCHANGED <<parsedSegments, playbackSpeed, MAX_SPEED, hasPath, updates>>
  /\ UNCHANGED <<tickQueued, renderQueued, toolHead, controlsEnabled>>
  /\ ViewerFrame

\* the while loop is over: animationFrameId = requestAnimationFrame(updateAnimation)
RequestNextTick ==
  /\ fpc = "viewer"
  /\ targetFrameIndex >= 0
  /\ ~MoreFrames
  /\ animationFrameId' = 1
  /\ tickQueued' = TRUE
  /\ targetFrameIndex' = -1
  /\ UNCHANGED <<animationFrames, isPlaying, currentFrameIndex>>
  /\ UNCHANGED <<parsedSegments, playbackSpeed, MAX_SPEED, hasPath, updates>>
  /\ UNCHANGED <<renderQueued, toolHead, controlsEnabled>>
  /\ ViewerFrame

ViewerNext ==
  \/ \E segs \in ViewerInputs : updatePath(segs)
  \/ togglePlay
  \/ resetAnimation
  \/ \E newSpeed \in {MIN_SPEED, MIN_SPEED + 100} : handleSpeedChange(newSpeed)
  \/ animate
  \/ \E elapsed \in {0, 3, Len(animationFrames)} : updateAnimation(elapsed)
  \/ AdvanceFrame
  \/ RequestNextTick

ViewerSpec == ViewerInit /\ [][ViewerNext]_vars

\* the viewer with the browser's scheduling: a requested callback is run, a
\* tick that has started runs its loop to the end, and since the time passed
\* to the ticks keeps growing, a tick that is requested again and again is
\* at some point one whose time is beyond the last frame
ViewerLiveSpec ==
  /\ ViewerSpec
  /\ WF_vars(animate)
  /\ WF_vars(AdvanceFrame)
  /\ WF_vars(RequestNextTick)
  /\ SF_vars(updateAnimation(Len(animationFrames)))

(***************************************************************************)
(* Views of the generator's output used by the properties.                 *)
(***************************************************************************)
\* the segments emitted so far: the output array, then the open segment while
\* the loop runs (after the return the open segment is the array's last one)
AllSegments ==
  IF pc = "loop" /\ currentSegment # 0
  THEN Append(Deref(G, segments), segObjs[currentSegment])
  ELSE Deref(G, segments)

\* the input the segments of AllSegments were produced from
CurrentInput ==
  IF pc = "loop" THEN commands
  ELSE IF Len(returned) > 0 THEN returned[Len(returned)].input
  ELSE <<>>

HasExtrusion(point) == "extrusion" \in DOMAIN point

RECURSIVE PriorExtrusion(_, _, _)
\* the extrusion amount that was current when point pi of segment si was
\* emitted: the extrusion of the nearest earlier point that carries one, else 0
PriorExtrusion(segs, si, pi) ==
  IF si = 0 THEN 0
  ELSE IF pi <= 1
       THEN (IF si = 1 THEN 0
             ELSE PriorExtrusion(segs, si - 1, Len(segs[si - 1].points) + 1))
       ELSE IF HasExtrusion(segs[si].points[pi - 1])
            THEN segs[si].points[pi - 1].extrusion
            ELSE PriorExtrusion(segs, si, pi - 1)

\* the instruction that opened segment si of a run
OpenedBy(run, si) == run.input[run.value[si].points[1].lineNumber]

\* C1: in every segment (emitted or open), every point has the segment's type,
\* and every point was classified with the segment's flag: a Home point lies
\* in a non-extruding segment, and any other point except an arc's leading
\* point raised the extrusion exactly when the segment is extruding.
SegmentConstant ==
  \A si \in 1..Len(AllSegments) :
    LET s == AllSegments[si]
    IN \A pi \in 1..Len(s.points) :
         LET point == s.points[pi]
         IN /\ point.type = s.type
            /\ IF ~HasExtrusion(point) THEN s.isExtruding = FALSE
               ELSE IF s.type \in ArcTypes /\ pi = 1
                    THEN point.extrusion = PriorExtrusion(AllSegments, si, pi)
                    ELSE s.isExtruding =
                           (point.extrusion > PriorExtrusion(AllSegments, si, pi))

SegmentConstantWitness ==
  /\ pc = "idle"
  /\ Len(AllSegments) >= 2
  /\ \E si \in 1..Len(AllSegments) :
       AllSegments[si].isExtruding /\ Len(AllSegments[si].points) >= 2
  /\ \E si \in 1..Len(AllSegments) : ~AllSegments[si].isExtruding

AdjacentDiffer(segs, i) ==
  \/ segs[i].type # segs[i + 1].type
  \/ segs[i].isExtruding # segs[i + 1].isExtruding

\* C2 as stated: in every returned list, any two adjacent segments differ in
\* type or isExtruding (lists with Home instructions included).
AdjacentSegmentsDiffer ==
  \A k \in 1..Len(returned) :
    \A i \in 1..(Len(returned[k].value) - 1) :
      AdjacentDiffer(returned[k].value, i)

\* C2 amended: in every returned list, two adjacent segments differ in type or
\* isExtruding unless the later one was opened by a Home instruction.
AdjacentSegmentsDifferUnlessHome ==
  \A k \in 1..Len(returned) :
    \A i \in 1..(Len(returned[k].value) - 1) :
      \/ AdjacentDiffer(returned[k].value, i)
      \/ OpenedBy(returned[k], i + 1).type = "G28"

AdjacentSegmentsWitness ==
  \E k \in 1..Len(returned) :
    /\ Len(returned[k].value) >= 3
    /\ \E i \in 2..Len(returned[k].value) : OpenedBy(returned[k], i).type = "G28"
    /\ \E i \in 2..Len(returned[k].value) : OpenedBy(returned[k], i).type # "G28"

\* C4: a list returned by generatePath is never changed afterwards, and every
\* call returns what generatePath returns for the same input on a newly
\* constructed generator.
GeneratePathIndependent ==
  \A k \in 1..Len(returned) :
    /\ Deref(G, returned[k].ref) = returned[k].value
    /\ LET fresh == generatePath(Constructor, returned[k].input)
       IN returned[k].value = Deref(fresh, fresh.segments)

GeneratePathIndependentWitness ==
  /\ Len(returned) = 2
  /\ \E i \in 1..Len(returned[1].input) : returned[1].input[i].type = "G91"
  /\ Len(returned[2].input) >= 2
  /\ Len(returned[2].value) >= 1
  /\ returned[1].value # returned[2].value

ExampleA == <<WithLine(Cmd("G1", ("X" :> 10) @@ ("Y" :> 0) @@ ("F" :> 1000)), 1)>>

ExampleAOutput(feedrate) ==
  << [points |-> << [position |-> <<10, 0, 0>>,
                     type |-> "G1",
                     feedrate |-> feedrate,
                     extrusion |-> 0,
                     lineNumber |-> 1] >>,
      type |-> "G1",
      isExtruding |-> FALSE] >>

\* C5 as stated: 'G1 X10 Y0 F1000' alone yields one non-extruding G1 segment
\* with the single point (10,0,0), extrusion 0, feedrate 1000.
ExampleAFeedrate1000 ==
  \A k \in 1..Len(returned) :
    returned[k].input = ExampleA => returned[k].value = ExampleAOutput(1000)

\* C5 amended: 'G1 X10 Y0 F1000' alone yields one non-extruding G1 segment with
\* the single point (10,0,0), extrusion 0, whose feedrate is 0, the feedrate
\* before the instruction; the current feedrate is 1000 afterwards.
ExampleAFeedrate0 ==
  /\ \A k \in 1..Len(returned) :
       returned[k].input = ExampleA => returned[k].value = ExampleAOutput(0)
  /\ (pc = "loop" /\ commands = ExampleA) =>
       /\ currentFeedrate = 1000
       /\ AllSegments = ExampleAOutput(0)

ExampleAWitness ==
  /\ Len(returned) = 1
  /\ returned[1].input = ExampleA
  /\ currentFeedrate = 1000

RECURSIVE PriorFeedrate(_, _)
\* the feedrate that is current before instruction n of input: the F of the
\* nearest earlier instruction that has one, else 0
PriorFeedrate(input, n) ==
  IF n <= 1 THEN 0
  ELSE IF Has(input[n - 1].params, "F") THEN input[n - 1].params["F"]
  ELSE PriorFeedrate(input, n - 1)

\* C6: every point emitted by a move or arc instruction carries the feedrate
\* that was current before that instruction (the F of the nearest earlier
\* instruction with an F, or 0), not the instruction's own F.
PointFeedrateIsPrior ==
  \A run \in {[input |-> returned[k].input, value |-> returned[k].value] :
                 k \in 1..Len(returned)}
               \cup {[input |-> CurrentInput, value |-> AllSegments]} :
    \A si \in 1..Len(run.value) :
      \A pi \in 1..Len(run.value[si].points) :
        LET point == run.value[si].points[pi]
        IN run.input[point.lineNumber].type \in MoveTypes =>
             point.feedrate = PriorFeedrate(run.input, point.lineNumber)

PointFeedrateIsPriorWitness ==
  \E si \in 1..Len(AllSegments) :
    \E pi \in 1..Len(AllSegments[si].points) :
      LET point == AllSegments[si].points[pi]
          c == CurrentInput[point.lineNumber]
      IN /\ c.type \in ArcTypes
         /\ Has(c.params, "F")
         /\ point.feedrate # 0
         /\ point.feedrate # c.params["F"]

\* a loop iteration that handled a Home instruction
HomeStep == commands' # commands /\ lastCommand'.type = "G28"

\* C7 as stated: a Home instruction that names axes sets exactly those to 0 and
\* leaves the others; one that names none sets all three to 0.
HomeResetsNamedAxesOnly ==
  [][HomeStep =>
       LET p == lastCommand'.params
           named(letter) == Has(p, letter)
           none == ~named("X") /\ ~named("Y") /\ ~named("Z")
           axis(letter, i) == IF none \/ named(letter) THEN 0
                              ELSE currentPosition[i]
       IN currentPosition' = <<axis("X", 1), axis("Y", 2), axis("Z", 3)>>]_vars

\* the point a Home iteration pushed
HomePoint == segObjs'[currentSegment'].points[1]

\* C8 as stated: a Home instruction leaves the feedrate as it was, also when it
\* carries F, and its point is the one it would emit under any other feedrate.
HomeIgnoresFeedrate ==
  [][HomeStep =>
       /\ currentFeedrate' = currentFeedrate
       /\ LET other == processHomeMove([G EXCEPT !.currentFeedrate = 0],
                                       lastCommand')
          IN HomePoint = other.segObjs[other.currentSegment].points[1]]_vars

\* C8 amended: the point a Home instruction emits carries the feedrate that
\* was current before it, and a Home instruction with F sets the feedrate to
\* F after emitting its point (without F the feedrate is unchanged).
HomeFeedrateLikeAnyInstruction ==
  [][HomeStep =>
       /\ HomePoint.feedrate = currentFeedrate
       /\ currentFeedrate' = IF Has(lastCommand'.params, "F")
                             THEN lastCommand'.params["F"]
                             ELSE currentFeedrate]_vars

HomeFeedrateWitness ==
  /\ pc = "loop"
  /\ lastCommand.type = "G28"
  /\ Has(lastCommand.params, "F")
  /\ segObjs[currentSegment].points[1].feedrate # 0
  /\ segObjs[currentSegment].points[1].feedrate # currentFeedrate

\* C9: a Home instruction appends the open segment to the output when it is
\* non-empty (whatever its type and flag), opens a new G0 non-extruding segment
\* object holding exactly one point, at the new position, and leaves the
\* extrusion amount, the output array's earlier entries and all earlier
\* segment objects unchanged.
HomeClosesAndOpens ==
  [][HomeStep =>
       /\ segments' = segments
       /\ arrays'[segments] =
            IF currentSegment # 0 /\ Len(segObjs[currentSegment].points) > 0
            THEN Append(arrays[segments], currentSegment)
            ELSE arrays[segments]
       /\ currentSegment' = Len(segObjs) + 1
       /\ SubSeq(segObjs', 1, Len(segObjs)) = segObjs
       /\ Len(segObjs') = Len(segObjs) + 1
       /\ segObjs'[currentSegment'].type = "G0"
       /\ segObjs'[currentSegment'].isExtruding = FALSE
       /\ Len(segObjs'[currentSegment'].points) = 1
       /\ HomePoint.position = currentPosition'
       /\ HomePoint.type = "G0"
       /\ currentExtrusion' = currentExtrusion]_vars

HomeClosesAndOpensWitness ==
  /\ pc = "loop"
  /\ lastCommand.type = "G28"
  /\ Len(arrays[segments]) >= 1
  /\ LET prev == segObjs[Last(arrays[segments])]
     IN prev.type = "G0" /\ ~prev.isExtruding /\ HasExtrusion(prev.points[1])
  /\ currentExtrusion > 0

\* C3: the frame list calculateAnimationFrames returns has times that never
\* decrease from one frame to the next, and when it is not empty its first
\* frame has time 0.
FramesOrderedFromZero ==
  fpc = "frames" =>
    /\ \A i \in 1..(Len(animationFrames) - 1) :
         animationFrames[i].time <= animationFrames[i + 1].time
    /\ animationFrames # <<>> => animationFrames[1].time = 0

\* frames of several pairs have been returned, and as appended they were not
\* in time order: a pair's last frame lies after the next pair's first frame
FramesOrderedWitness ==
  /\ fpc = "frames"
  /\ Len(parsedSegments) >= 2
  /\ playbackSpeed >= MIN_SPEED
  /\ \E i \in 1..(Len(animationFrames) - 1) :
       animationFrames[i].segmentIndex > animationFrames[i + 1].segmentIndex

\* C11 as stated: in every returned arc segment, the two points of every
\* leading+trailing pair carry identical arc parameters, also when several
\* arcs were appended to the segment.
ArcPairsShareParams ==
  \A k \in 1..Len(returned) :
    \A si \in 1..Len(returned[k].value) :
      LET s == returned[k].value[si]
      IN s.type \in ArcTypes =>
           \A pi \in 1..(Len(s.points) - 1) :
             s.points[pi].params = s.points[pi + 1].params

\* C11 amended: in every returned arc segment, the point an arc starts from
\* carries that arc's offsets, and the segment's last point carries the
\* offsets of the arc that ends there; the end point of an arc that another
\* arc was appended to carries the later arc's offsets.
ArcLeadingCarriesOwnParams ==
  \A k \in 1..Len(returned) :
    \A si \in 1..Len(returned[k].value) :
      LET s == returned[k].value[si]
          n == Len(s.points)
          arcOf(pi) == returned[k].input[s.points[pi].lineNumber]
      IN s.type \in ArcTypes =>
           /\ n >= 2
           /\ \A pi \in 1..(n - 1) : s.points[pi].params = ArcParams(arcOf(pi + 1))
           /\ s.points[n].params = ArcParams(arcOf(n))

\* a returned arc segment that two arcs with different offsets were appended to
ArcPairsWitness ==
  \E k \in 1..Len(returned) :
    \E si \in 1..Len(returned[k].value) :
      LET s == returned[k].value[si]
      IN /\ s.type \in ArcTypes
         /\ Len(s.points) >= 3
         /\ s.points[1].params # s.points[3].params

\* the squared distance, in mm^2, between a start position and the center
\* start + (I, J, K) that the offsets in params give
CenterDistanceSquared(params) ==
  OrZero(params, "I") * OrZero(params, "I")
    + OrZero(params, "J") * OrZero(params, "J")
    + OrZero(params, "K") * OrZero(params, "K")

AxisLetters == <<"X", "Y", "Z">>

\* the position an instruction's X, Y, Z resolve to from the current state:
\* a given axis is the parameter (absolute mode) or the current value plus
\* the parameter (incremental mode), an axis not given keeps its value
ResolvedPosition(command) ==
  [i \in 1..3 |->
     IF Has(command.params, AxisLetters[i])
     THEN (IF isAbsolutePositioning THEN command.params[AxisLetters[i]]
           ELSE currentPosition[i] + command.params[AxisLetters[i]])
     ELSE currentPosition[i]]

\* an arc instruction that processArcMove skips from the current state: its
\* end equals the start in X and Y, or its radius |(I, J, K)| is below 0.001
ArcIsSkipped(command) ==
  \/ /\ ResolvedPosition(command)[1] = currentPosition[1]
     /\ ResolvedPosition(command)[2] = currentPosition[2]
  \/ CenterDistanceSquared(command.params) * 1000000 < 1

\* the flag an instruction is classified with from the current state
ClassifiedExtruding(command) ==
  calculateNewExtrusion(G, command) > currentExtrusion

\* C12: an accepted arc handled while no segment of its type and flag is open
\* opens one new segment that holds exactly two points, the first at the
\* start position and the second at the resolved end position, both carrying
\* the arc's I, J, K offsets.
AcceptedArcOpensPair ==
  [][(/\ (commands' # commands /\ lastCommand'.type \in ArcTypes)
      /\ ~ArcIsSkipped(lastCommand')
      /\ NeedsNewSegment(G, lastCommand'.type, ClassifiedExtruding(lastCommand')))
       => /\ Len(segObjs') = Len(segObjs) + 1
          /\ currentSegment' = Len(segObjs')
          /\ LET s == segObjs'[currentSegment']
                 offsets == Restrict(lastCommand'.params, {"I", "J", "K"})
             IN /\ s.type = lastCommand'.type
                /\ Len(s.points) = 2
                /\ s.points[1].position = currentPosition
                /\ s.points[2].position = ResolvedPosition(lastCommand')
                /\ s.points[1].params = offsets
                /\ s.points[2].params = offsets]_vars

\* 'G2 X10 Y0 I5 J0' handled as the first instruction, from the origin
AcceptedArcWitness ==
  /\ pc = "loop"
  /\ Len(commands) = 1
  /\ lastCommand.type = "G2"
  /\ currentSegment # 0
  /\ Len(segObjs[currentSegment].points) = 2
  /\ segObjs[currentSegment].points[1].position = <<0, 0, 0>>
  /\ segObjs[currentSegment].points[2].position = <<10, 0, 0>>
  /\ segObjs[currentSegment].points[1].params = [k \in {"I", "J"} |-> IF k = "I" THEN 5 ELSE 0]

\* C13: in every arc segment, emitted or open, every point carries offsets
\* whose center lies at distance at least 0.001 from the start position, and
\* every point stems from an arc instruction with such offsets: an arc whose
\* radius is below 0.001 contributes no point.
ArcPointsHaveRadius ==
  \A si \in 1..Len(AllSegments) :
    LET s == AllSegments[si]
    IN s.type \in ArcTypes =>
         \A pi \in 1..Len(s.points) :
           /\ CenterDistanceSquared(s.points[pi].params) * 1000000 >= 1
           /\ CenterDistanceSquared(CurrentInput[s.points[pi].lineNumber].params)
                * 1000000 >= 1

\* a call has returned an arc segment for an input that holds an arc without
\* offsets whose end differs from its start
ArcPointsHaveRadiusWitness ==
  /\ pc = "idle"
  /\ Len(returned) = 1
  /\ \E i \in 1..Len(returned[1].input) :
       /\ returned[1].input[i].type \in ArcTypes
       /\ CenterDistanceSquared(returned[1].input[i].params) = 0
       /\ Has(returned[1].input[i].params, "X")
  /\ \E si \in 1..Len(returned[1].value) :
       returned[1].value[si].type \in ArcTypes

\* C14: an arc that is skipped (its end equals the start in X and Y, or its
\* radius is below 0.001) emits no point and leaves the position, the
\* extrusion amount, the positioning mode, the open segment, every segment
\* object and the output array unchanged, also when it carries E.
SkippedArcChangesNothing ==
  [][((commands' # commands /\ lastCommand'.type \in ArcTypes) /\ ArcIsSkipped(lastCommand'))
       => /\ currentPosition' = currentPosition
          /\ currentExtrusion' = currentExtrusion
          /\ isAbsolutePositioning' = isAbsolutePositioning
          /\ currentSegment' = currentSegment
          /\ segObjs' = segObjs
          /\ segments' = segments
          /\ arrays' = arrays]_vars

\* an arc with E and without offsets, whose X differs from the current one,
\* was handled while a segment was open, and no point stems from it
SkippedArcWitness ==
  /\ pc = "loop"
  /\ lastCommand.type \in ArcTypes
  /\ CenterDistanceSquared(lastCommand.params) = 0
  /\ Has(lastCommand.params, "E")
  /\ lastCommand.params["E"] # currentExtrusion
  /\ lastCommand.params["X"] # currentPosition[1]
  /\ currentSegment # 0
  /\ \A si \in 1..Len(AllSegments) :
       \A pi \in 1..Len(AllSegments[si].points) :
         AllSegments[si].points[pi].lineNumber # lastCommand.lineNumber

\* the loop iteration just taken handled a move, or an arc that was not
\* skipped: it emitted a point into the segment that is open afterwards
EmittingStep ==
  /\ commands' # commands
  /\ \/ lastCommand'.type \in {"G0", "G1"}
     \/ lastCommand'.type \in ArcTypes /\ ~ArcIsSkipped(lastCommand')

\* C15: the segment a move or arc puts its point into has isExtruding true
\* exactly when the instruction's new extrusion amount is strictly greater
\* than the current one; an instruction without E, or with E not above the
\* current amount, is non-extruding, and then it opens a new segment when the
\* open segment is extruding.
ExtrudingIsStrictIncrease ==
  [][EmittingStep =>
       LET s == segObjs'[currentSegment']
           p == lastCommand'.params
       IN /\ s.isExtruding = ClassifiedExtruding(lastCommand')
          /\ (~Has(p, "E") \/ p["E"] <= currentExtrusion) => ~s.isExtruding
          /\ (/\ currentSegment # 0
              /\ segObjs[currentSegment].isExtruding
              /\ ~ClassifiedExtruding(lastCommand'))
               => /\ currentSegment' # currentSegment
                  /\ currentSegment' = Len(segObjs')
                  /\ Len(segObjs') = Len(segObjs) + 1]_vars

\* a move with E equal to the current amount was handled while an extruding
\* segment of its type was open: that segment was closed and the move's point
\* lies in a new non-extruding segment
ExtrudingIsStrictWitness ==
  /\ pc = "loop"
  /\ Has(lastCommand.params, "E")
  /\ Len(AllSegments) >= 2
  /\ LET n == Len(AllSegments)
         prev == AllSegments[n - 1]
         open == AllSegments[n]
     IN /\ prev.type = open.type
        /\ prev.isExtruding
        /\ ~open.isExtruding
        /\ Len(open.points) = 1
        /\ open.points[1].lineNumber = lastCommand.lineNumber
        /\ Last(prev.points).extrusion = lastCommand.params["E"]

ExampleB ==
  << WithLine(Cmd("G90", NoParams), 1),
     WithLine(Cmd("G1", [k \in {"X", "E"} |-> IF k = "X" THEN 10 ELSE 5]), 2),
     WithLine(Cmd("G1", [k \in {"X", "E"} |-> IF k = "X" THEN 20 ELSE 10]), 3) >>

\* C16: a move that raises the extrusion, handled while an extruding segment
\* of its type is open, is appended behind that segment's points and nothing
\* is emitted to the output; and 'G90; G1 X10 E5; G1 X20 E10' returns one
\* extruding G1 segment with the points (10,0,0) E=5 then (20,0,0) E=10.
RisingMovesShareSegment ==
  /\ [](\A k \in 1..Len(returned) :
          returned[k].input = ExampleB => returned[k].value =
              << [points |-> << [position |-> <<10, 0, 0>>, type |-> "G1", feedrate |-> 0,
                                 extrusion |-> 5, lineNumber |-> 2],
                                [position |-> <<20, 0, 0>>, type |-> "G1", feedrate |-> 0,
                                 extrusion |-> 10, lineNumber |-> 3] >>,
                  type |-> "G1", isExtruding |-> TRUE] >>)
  /\ [][(/\ (commands' # commands /\ lastCommand'.type \in {"G0", "G1"})
         /\ ClassifiedExtruding(lastCommand')
         /\ currentSegment # 0
         /\ segObjs[currentSegment].type = lastCommand'.type
         /\ segObjs[currentSegment].isExtruding)
          => /\ currentSegment' = currentSegment
             /\ arrays' = arrays
             /\ Len(segObjs') = Len(segObjs)
             /\ Front(segObjs'[currentSegment].points) = segObjs[currentSegment].points
             /\ Last(segObjs'[currentSegment].points).lineNumber
                  = lastCommand'.lineNumber
             /\ Last(segObjs'[currentSegment].points).extrusion
                  = lastCommand'.params["E"]]_vars

\* the call on 'G90; G1 X10 E5; G1 X20 E10' has returned
RisingMovesWitness ==
  /\ pc = "idle"
  /\ Len(returned) = 1
  /\ returned[1].input = ExampleB
  /\ Len(returned[1].value) = 1
  /\ Len(returned[1].value[1].points) = 2

\* C17: the point a move or an accepted arc emits last lies at the position
\* its X, Y, Z resolve to (a given axis replaced in absolute mode, increased in
\* incremental mode, an axis not given kept), and the current position
\* afterwards is that point's position.
PointAtResolvedPosition ==
  [][EmittingStep =>
       LET point == Last(segObjs'[currentSegment'].points)
       IN /\ point.lineNumber = lastCommand'.lineNumber
          /\ point.position = ResolvedPosition(lastCommand')
          /\ currentPosition' = point.position]_vars

\* in incremental mode an instruction that gives X but not Y and Z has
\* emitted the open segment's last point, at an X beyond its parameter
PointAtResolvedWitness ==
  /\ pc = "loop"
  /\ ~isAbsolutePositioning
  /\ lastCommand.type \in MoveTypes
  /\ Has(lastCommand.params, "X")
  /\ ~Has(lastCommand.params, "Y")
  /\ ~Has(lastCommand.params, "Z")
  /\ currentSegment # 0
  /\ Last(segObjs[currentSegment].points).lineNumber = lastCommand.lineNumber
  /\ currentPosition[1] > lastCommand.params["X"]

\* C18: G90 and G91 change only the positioning mode (absolute after G90,
\* incremental after G91) and any other type that is not a move, an arc or a
\* home changes nothing; the feedrate becomes the instruction's F when it has
\* one; no point is emitted, and position, extrusion, the open segment and
\* the emitted segment list stay as they were.
ModeAndOtherEmitNothing ==
  [][(commands' # commands /\ lastCommand'.type \notin (MoveTypes \cup {"G28"})) =>
       /\ UNCHANGED <<currentPosition, currentExtrusion, isAbsoluteExtrusion>>
       /\ UNCHANGED <<currentSegment, segments, arrays, segObjs>>
       /\ isAbsolutePositioning' =
            (CASE lastCommand'.type = "G90" -> TRUE
               [] lastCommand'.type = "G91" -> FALSE
               [] OTHER -> isAbsolutePositioning)
       /\ currentFeedrate' =
            (IF Has(lastCommand'.params, "F") THEN lastCommand'.params["F"]
             ELSE currentFeedrate)]_vars

\* an unrecognized instruction with F was handled in incremental mode while a
\* segment with a point was open: the feedrate is its F, the point is the
\* earlier instruction's
ModeAndOtherWitness ==
  /\ pc = "loop"
  /\ lastCommand.type \notin (MoveTypes \cup {"G28", "G90", "G91"})
  /\ Has(lastCommand.params, "F")
  /\ currentFeedrate = lastCommand.params["F"]
  /\ ~isAbsolutePositioning
  /\ currentSegment # 0
  /\ Len(segObjs[currentSegment].points) > 0
  /\ Last(segObjs[currentSegment].points).lineNumber < lastCommand.lineNumber
  /\ currentPosition # <<0, 0, 0>>

RECURSIVE PointsOf(_)
\* the points of a PathSegment[] in order, segment after segment
PointsOf(segs) ==
  IF Len(segs) = 0 THEN <<>>
  ELSE PointsOf(Front(segs)) \o Last(segs).points

\* the points emitted so far, in the output array and the open segment
EmittedPoints == PointsOf(AllSegments)

\* C19: each instruction of the fold leaves the points emitted before it in
\* place and puts its own behind them; the return hands out exactly the
\* points emitted, the open segment included, in that order; no returned
\* segment is empty, no segment object is twice in the returned array, and
\* the line numbers of the returned points never decrease.
ReturnsEveryPointOnce ==
  /\ [][(commands' # commands) =>
         LET before == EmittedPoints
             after == EmittedPoints'
         IN /\ Len(after) >= Len(before)
            /\ \A i \in 1..Len(before) :
                 Restrict(after[i], (DOMAIN after[i]) \ {"params"})
                   = Restrict(before[i], (DOMAIN before[i]) \ {"params"})
            /\ \A i \in (Len(before) + 1)..Len(after) :
                  after[i].lineNumber = lastCommand'.lineNumber]_vars
  /\ [][(Len(returned') > Len(returned)) =>
         LET out == Last(returned').value
             refs == arrays'[Last(returned').ref]
         IN /\ PointsOf(out) = EmittedPoints
            /\ \A i \in 1..Len(out) : Len(out[i].points) > 0
            /\ \A i, j \in 1..Len(refs) : i # j => refs[i] # refs[j]
            /\ \A i, j \in 1..Len(PointsOf(out)) :
                  i < j => PointsOf(out)[i].lineNumber <= PointsOf(out)[j].lineNumber]_vars

\* a call returned two segments, the second of them the one that was still
\* open when the loop ended, with the points of three instructions
ReturnsEveryPointWitness ==
  /\ pc = "idle"
  /\ Len(returned) = 1
  /\ Len(returned[1].value) = 2
  /\ currentSegment = Last(arrays[returned[1].ref])
  /\ {PointsOf(returned[1].value)[i].lineNumber :
        i \in 1..Len(PointsOf(returned[1].value))} = {1, 2, 3}

\* C20 as stated: the cached frame list is emptied whenever updatePath
\* replaces the path segments and whenever resetAnimation resets playback,
\* so a non-empty cached frame list is always the one calculateAnimationFrames
\* gives for the current parsedSegments (at one of the speeds the viewer can
\* hold here: the default one or 50, 100, ..., 300 mm/min).
CachedFramesAreCurrent ==
  /\ [](Len(animationFrames) > 0 =>
          \E speed \in {DEFAULT_SPEED} \cup {MIN_SPEED + 50 * k : k \in 0..5} :
            animationFrames = calculateAnimationFrames(parsedSegments, speed))
  /\ [][updates' # updates /\ parsedSegments' # parsedSegments
          => animationFrames' = <<>>]_vars
  /\ [][resetAnimation /\ Len(parsedSegments) > 0 => animationFrames' = <<>>]_vars

\* C21: a tick that enters its loop has the target min(elapsed, last index);
\* while a tick runs the cursor stays or goes up by exactly one, and never
\* to beyond the target; and the cursor is always an index of the frame
\* list, 0 .. frames.length - 1.
CursorFollowsTarget ==
  /\ [](Len(animationFrames) > 0 => currentFrameIndex \in 0..(Len(animationFrames) - 1))
  /\ [](targetFrameIndex \in -1..(Len(animationFrames) - 1))
  /\ [][\A elapsed \in {0, 3, Len(animationFrames)} :
          updateAnimation(elapsed) /\ targetFrameIndex' # -1
            => targetFrameIndex' = IF elapsed < Len(animationFrames') - 1
                                   THEN elapsed ELSE Len(animationFrames') - 1]_vars
  /\ [][targetFrameIndex # -1 \/ targetFrameIndex' # -1
          => \/ currentFrameIndex' = currentFrameIndex
             \/ /\ currentFrameIndex' = currentFrameIndex + 1
                /\ currentFrameIndex' <= targetFrameIndex]_vars

\* a tick with target 3 has moved the cursor from 0 to 3 and its loop is over
CursorFollowsTargetWitness ==
  /\ fpc = "viewer"
  /\ isPlaying
  /\ targetFrameIndex = 3
  /\ currentFrameIndex = 3
  /\ Len(animationFrames) > 4
\* C22: pausing turns playback off, leaves the cursor, the cached frames and
\* the tool head as they are and leaves no tick waiting, and while playback is
\* off no tick waits and no step of a tick (its entry, an iteration of its
\* loop, its next request) changes the cursor, the cached frames or the tool
\* head
PausedTicksChangeNothing ==
  /\ [](~isPlaying /\ targetFrameIndex = -1 => ~tickQueued)
  /\ [][/\ (togglePlay /\ isPlaying
               => /\ ~isPlaying'
                  /\ ~tickQueued'
                  /\ UNCHANGED <<currentFrameIndex, animationFrames, toolHead>>)
         /\ (~isPlaying /\ ((\E elapsed \in {0, 3, Len(animationFrames)} :
                                updateAnimation(elapsed))
                              \/ AdvanceFrame \/ RequestNextTick)
               => UNCHANGED <<currentFrameIndex, animationFrames, toolHead>>)]_vars

\* playback was paused part way: the pause withdrew the tick's request, the
\* render loop's request still waits, and the cursor and the tool head are
\* where the last tick left them
PausedTicksChangeNothingWitness ==
  /\ fpc = "viewer"
  /\ ~isPlaying
  /\ controlsEnabled
  /\ currentFrameIndex > 0
  /\ currentFrameIndex < Len(animationFrames) - 1
  /\ toolHead = animationFrames[currentFrameIndex].position
  /\ ~tickQueued
  /\ renderQueued
  /\ animationFrameId = 0

\* C23: a parseContent call made while rawContent is empty returns at once
\* and changes nothing of the store (no validation, no parse, no waiting
\* call), and in every interleaving of store actions no parseGCode call is
\* ever made on an empty document
EmptyDocumentNeverParsed ==
  /\ [](\A n \in 1..Len(parses) : Len(parses[n].content) > 0)
  /\ [][parseContent /\ Len(rawContent) = 0
         => UNCHANGED <<rawContent, parseResult, validationErrors, isParsing,
                        pendingParses, parses>>]_vars

\* C24 as stated: validateGCode reports one error for exactly those lines
\* that have a part matching neither pattern, in line order, each citing the
\* 1-indexed line and the first such part of the line; the document is valid
\* exactly when there is no error; 'G1 XABC' gives one error for line 1 and
\* 'XABC'
ErrorCitesFirstInvalidToken ==
  spc \in {"validated", "parsed"} =>
    LET lines == SplitOn(rawContent, "\n", 1, <<>>)
        clean(i) == TrimRight(TrimLeft(BeforeSemicolon(lines[i], 1)))
        toks(i) == IF Len(clean(i)) = 0 THEN <<>>
                   ELSE SplitSpaces(clean(i), 1, <<>>)
        bad(i) == {j \in 1..Len(toks(i)) : ~ValidPart(toks(i)[j])}
    IN /\ Len(validationErrors) = Cardinality({i \in 1..Len(lines) : bad(i) # {}})
       /\ \A e \in 1..Len(validationErrors) :
            /\ validationErrors[e].line \in 1..Len(lines)
            /\ bad(validationErrors[e].line) # {}
            /\ \E j \in bad(validationErrors[e].line) :
                 /\ \A k \in bad(validationErrors[e].line) : j <= k
                 /\ validationErrors[e].text = toks(validationErrors[e].line)[j]
            /\ \A f \in 1..(e - 1) : validationErrors[f].line < validationErrors[e].line
       /\ parses = <<Len(validationErrors) = 0>>
       /\ rawContent = <<"G", "1", " ", "X", "A", "B", "C">>
            => validationErrors = << [line |-> 1, kind |-> "invalid",
                                      text |-> <<"X", "A", "B", "C">>] >>

\* C24, amended: the same, the parts of a line being those that follow its
\* leading line index (N and digits) when the line has one followed by more
ErrorCitesFirstInvalidAfterIndex ==
  spc \in {"validated", "parsed"} =>
    LET lines == SplitOn(rawContent, "\n", 1, <<>>)
        clean(i) == TrimRight(TrimLeft(BeforeSemicolon(lines[i], 1)))
        toks(i) == IF Len(clean(i)) = 0 THEN <<>>
                   ELSE SplitSpaces(InstructionPart(clean(i)), 1, <<>>)
        bad(i) == {j \in 1..Len(toks(i)) : ~ValidPart(toks(i)[j])}
    IN /\ Len(validationErrors) = Cardinality({i \in 1..Len(lines) : bad(i) # {}})
       /\ \A e \in 1..Len(validationErrors) :
            /\ validationErrors[e].line \in 1..Len(lines)
            /\ bad(validationErrors[e].line) # {}
            /\ \E j \in bad(validationErrors[e].line) :
                 /\ \A k \in bad(validationErrors[e].line) : j <= k
                 /\ validationErrors[e].text = toks(validationErrors[e].line)[j]
            /\ \A f \in 1..(e - 1) : validationErrors[f].line < validationErrors[e].line
       /\ parses = <<Len(validationErrors) = 0>>
       /\ rawContent = <<"G", "1", " ", "X", "A", "B", "C">>
            => validationErrors = << [line |-> 1, kind |-> "invalid",
                                      text |-> <<"X", "A", "B", "C">>] >>

\* a document validated with two errors: line 1 has a line index in front and
\* an invalid part behind valid ones, line 2 two invalid parts
ErrorCitesFirstInvalidWitness ==
  /\ spc = "validated"
  /\ rawContent = <<"N", "5", " ", "G", "1", " ", "Y", "7", " ", "Q", "2", "\n", "G", "1", " ", "X", "A", " ", "Y", "B">>
  /\ validationErrors = << [line |-> 1, kind |-> "invalid", text |-> <<"Q", "2">>],
                           [line |-> 2, kind |-> "invalid", text |-> <<"X", "A">>] >>

\* C25: in what parseGCode returns, the max and the min of each of X, Y, Z
\* are the greatest and the least value of that parameter among the returned
\* instructions that carry it, both 0 when none carries it, so min <= max;
\* validCommands is the number of returned instructions and at most
\* totalLines
StatisticsAreAxisBounds ==
  spc = "parsed" =>
    LET result == parseResult[1]
        values(l) == {result.commands[i].params[l] :
                        i \in {n \in 1..Len(result.commands) :
                                 Has(result.commands[n].params, l)}}
    IN /\ \A l \in {"X", "Y", "Z"} :
            /\ values(l) = {} => result.stats.max[l] = 0 /\ result.stats.min[l] = 0
            /\ values(l) # {} =>
                 /\ result.stats.max[l] \in values(l)
                 /\ result.stats.min[l] \in values(l)
                 /\ \A v \in values(l) : result.stats.min[l] <= v /\ v <= result.stats.max[l]
            /\ result.stats.min[l] <= result.stats.max[l]
       /\ result.stats.validCommands = Len(result.commands)
       /\ result.stats.validCommands <= result.stats.totalLines
       /\ result.stats.totalLines = Len(SplitOn(rawContent, "\n", 1, <<>>))

\* two instructions parsed: X between -3 and 10, Y carried once, Z negative
StatisticsWitness ==
  /\ spc = "parsed"
  /\ rawContent = <<"G", "1", " ", "X", "1", "0", " ", "Z", "-", "2", "\n", "G", "0", " ", "X", "-", "3", " ", "Y", "4">>
  /\ parseResult[1].stats =
       [totalLines |-> 2, validCommands |-> 2,
        max |-> [l \in {"X", "Y", "Z"} |->
                   IF l = "X" THEN Num(10) ELSE IF l = "Y" THEN Num(4) ELSE Num(-2)],
        min |-> [l \in {"X", "Y", "Z"} |->
                   IF l = "X" THEN Num(-3) ELSE IF l = "Y" THEN Num(4) ELSE Num(-2)]]

SinglePointSegmentFrames ==
  fpc = "frames" =>
    \A s \in 1..Len(parsedSegments) :
      LET earlier == {e \in 1..(s - 1) : parsedSegments[e].type \in MoveTypes}
          own == SelectSeq(animationFrames, LAMBDA f : f.segmentIndex = s - 1)
      IN (parsedSegments[s].type \in MoveTypes /\ Len(parsedSegments[s].points) = 1) =>
           IF earlier = {}
           THEN /\ Len(own) = 1
                /\ own[1].time = 0
                /\ own[1].pointIndex = 0
                /\ own[1].position = ToL(parsedSegments[s].points[1].position)
                /\ Len(animationFrames) > 1 => animationFrames[2].time = 0
           ELSE /\ Len(own) >= 11
                /\ own[1].position =
                     ToL(Last(parsedSegments[CHOOSE e \in earlier :
                                               \A d \in earlier : d <= e].points).position)
                /\ own[Len(own)].position = ToL(parsedSegments[s].points[1].position)
                /\ \A n \in 1..Len(own) : own[n].pointIndex = 0

\* 'G0 X7 Z5' then 'G1 X10 Y10 F1000' as the generator returns them: one
\* frame for the first segment, then the frames from (7, 0, 5) to (10, 10, 5)
SinglePointSegmentWitness ==
  /\ fpc = "frames"
  /\ Len(parsedSegments) = 2
  /\ Len(parsedSegments[1].points) = 1
  /\ Len(parsedSegments[2].points) = 1
  /\ parsedSegments[2].type = "G1"
  /\ Len(animationFrames) > 11
  /\ animationFrames[1] = [position |-> <<700, 0, 500>>, segmentIndex |-> 0,
                           pointIndex |-> 0, time |-> 0]
  /\ animationFrames[2].segmentIndex = 1
  /\ animationFrames[2].position = <<700, 0, 500>>
  /\ Last(animationFrames).position = <<1000, 1000, 500>>

\* C28: the point pairs are processed in segment order and, within a
\* segment, in point order (a later segment of one point forms a pair with
\* the last point processed before it); the first frame of every pair is at
\* the sum of the durations of the pairs processed before it, and its last
\* frame at that sum plus the pair's own duration, up to the rounding of the
\* time of one frame; the duration of a pair is the time the pair takes by
\* itself, its length over the speed per second
FrameTimesArePrefixSums ==
  fpc = "frames" =>
    LET lastBefore(s) ==
          CHOOSE e \in 0..(s - 1) :
            /\ e > 0 => parsedSegments[e].type \in MoveTypes
            /\ \A d \in (e + 1)..(s - 1) : parsedSegments[d].type \notin MoveTypes
        alone(segment, p1, p2, arcPoint) ==
          PairFrames(EmptyAcc, segment, ToL(p1.position), ToL(p2.position),
                     arcPoint, 0, 0, playbackSpeed).currentTime
        pairsOf(s) ==
          IF parsedSegments[s].type \notin MoveTypes THEN <<>>
          ELSE IF Len(parsedSegments[s].points) > 1
          THEN [q \in 1..(Len(parsedSegments[s].points) - 1) |->
                  alone(parsedSegments[s], parsedSegments[s].points[q],
                        parsedSegments[s].points[q + 1], parsedSegments[s].points[q])]
          ELSE IF lastBefore(s) = 0 THEN <<>>
          ELSE << alone(parsedSegments[s], Last(parsedSegments[lastBefore(s)].points),
                        parsedSegments[s].points[1], parsedSegments[s].points[1]) >>
        RECURSIVE Sum(_, _)
        Sum(durations, n) == IF n = 0 THEN 0 ELSE Sum(durations, n - 1) + durations[n]
        RECURSIVE Before(_)
        Before(s) == IF s = 1 THEN 0
                     ELSE Before(s - 1) + Sum(pairsOf(s - 1), Len(pairsOf(s - 1)))
    IN \A s \in 1..Len(parsedSegments) : \A q \in 1..Len(pairsOf(s)) :
         LET own == SelectSeq(animationFrames,
                              LAMBDA f : f.segmentIndex = s - 1 /\ f.pointIndex = q - 1)
             start == Before(s) + Sum(pairsOf(s), q - 1)
         IN /\ Len(own) >= 11
            /\ own[1].time = start
            /\ 2 * Abs(own[Len(own)].time - (start + pairsOf(s)[q])) <= Len(own) - 1

\* 'G2 X10 Y0 I5 J0' then 'G1 X20 E5' at 700 mm/min: the arc's frames start at
\* 0 and the line's frames at the arc's duration, which is not 0
FrameTimesWitness ==
  /\ fpc = "frames"
  /\ playbackSpeed = 700
  /\ Len(parsedSegments) = 2
  /\ parsedSegments[1].type = "G2"
  /\ parsedSegments[2].type = "G1"
  /\ animationFrames[1].time = 0
  /\ animationFrames[1].segmentIndex = 0
  /\ \E n \in 1..Len(animationFrames) :
       /\ animationFrames[n].segmentIndex = 1
       /\ animationFrames[n].position = <<1000, 0, 0>>
       /\ animationFrames[n].time > 10000
       /\ \A m \in 1..Len(animationFrames) :
            animationFrames[m].segmentIndex = 1 => animationFrames[m].time >= animationFrames[n].time
  /\ Last(animationFrames).position = <<2000, 0, 0>>

\* C29: after every updatePath that succeeds, playbackSpeed is MIN_SPEED or a
\* multiple of 100 and lies between MIN_SPEED and MAX_SPEED, and MAX_SPEED is
\* the least multiple of 100 that is not below 1.5 x playbackSpeed
CalibratedSpeedInRange ==
  [][\A segs \in ViewerInputs :
       updatePath(segs) /\ Len(ValidSegments(segs)) > 0
         => /\ playbackSpeed' = MIN_SPEED \/ playbackSpeed' % 100 = 0
            /\ MIN_SPEED <= playbackSpeed'
            /\ playbackSpeed' <= MAX_SPEED'
            /\ MAX_SPEED' % 100 = 0
            /\ 2 * MAX_SPEED' >= 3 * playbackSpeed'
            /\ 2 * (MAX_SPEED' - 100) < 3 * playbackSpeed']_vars

\* the long move was shown after a path that left MAX_SPEED at 100, so the
\* calibration was cut to 100 and MAX_SPEED is 200
CalibratedSpeedWitness ==
  /\ fpc = "viewer"
  /\ hasPath
  /\ updates = 2
  /\ Len(parsedSegments) = 2
  /\ Last(parsedSegments[2].points).position = <<100, 0, 0>>
  /\ playbackSpeed = 100
  /\ MAX_SPEED = 200

\* C30: whatever was shown before, after an updatePath that succeeds
\* playbackSpeed and MAX_SPEED are those that the same segments give when they
\* are the first to be shown
CalibrationDependsOnSegmentsOnly ==
  [][\A segs \in ViewerInputs :
       updatePath(segs) /\ Len(ValidSegments(segs)) > 0
         => /\ playbackSpeed' =
                 calculateAppropriateSpeed(calculateToolHeadDistance(ValidSegments(segs)),
                                           INITIAL_MAX_SPEED)
            /\ MAX_SPEED' = CeilDiv(playbackSpeed' * 15, 1000) * 100]_vars

\* C31: whenever a segment is open it has at least one point and its last
\* point lies at the current position; in every segment each point after the
\* first lies where the instruction that emitted it resolves to from the
\* point before it (a given axis replaced in absolute mode, increased in
\* incremental mode, an axis not given kept), and in an arc segment the point
\* before it carries that instruction's I, J, K offsets.
OpenSegmentEndsAtPosition ==
  /\ currentSegment # 0 =>
       /\ Len(segObjs[currentSegment].points) > 0
       /\ Last(segObjs[currentSegment].points).position = currentPosition
  /\ \A si \in 1..Len(AllSegments) :
       \A pi \in 1..(Len(AllSegments[si].points) - 1) :
         LET from == AllSegments[si].points[pi]
             to == AllSegments[si].points[pi + 1]
             n == to.lineNumber
             c == CurrentInput[n]
             \* G90 is the nearest mode instruction before c, or there is none
             absolute == \A j \in 1..(n - 1) :
                           CurrentInput[j].type = "G91" =>
                             \E m \in (j + 1)..(n - 1) : CurrentInput[m].type = "G90"
         IN /\ c.type \in MoveTypes
            /\ \A i \in 1..3 :
                 to.position[i] =
                   IF Has(c.params, AxisLetters[i])
                   THEN (IF absolute THEN c.params[AxisLetters[i]]
                         ELSE from.position[i] + c.params[AxisLetters[i]])
                   ELSE from.position[i]
            /\ AllSegments[si].type \in ArcTypes => from.params = ArcParams(c)

\* an open arc segment that a second arc with other offsets was appended to
OpenSegmentWitness ==
  /\ pc = "loop"
  /\ currentSegment # 0
  /\ segObjs[currentSegment].type \in ArcTypes
  /\ Len(segObjs[currentSegment].points) >= 3
  /\ segObjs[currentSegment].points[1].params # segObjs[currentSegment].points[3].params
  /\ Last(segObjs[currentSegment].points).position = currentPosition

\* C32: when the frames are computed, every point pair of an arc segment
\* that the generator returned has a positive radius, the radius being the
\* distance from the pair's first point to the center that the I and J of
\* that point's params give.
SynthesizedArcsHaveRadius ==
  fpc = "frames" =>
    \A s \in 1..Len(parsedSegments) :
      parsedSegments[s].type \in ArcTypes =>
        \A pi \in 1..(Len(parsedSegments[s].points) - 1) :
          LET point == parsedSegments[s].points[pi]
              p1 == ToL(point.position)
              center == <<p1[1] + ArcOffset(point, "I") * LUnit,
                          p1[2] + ArcOffset(point, "J") * LUnit,
                          p1[3]>>
          IN Distance(p1, center) > 0

\* C33: while the component is mounted the render loop always has a request
\* waiting: no pause, end of playback or resetAnimation withdraws it.
RenderLoopKeepsRunning == fpc = "viewer" => renderQueued

\* C34: a togglePlay made while nothing plays and frames are cached changes
\* nothing (playback stays off, no tick is requested, cursor and frames stay);
\* playback is turned on only by a togglePlay made while no frames are cached,
\* and cached frames are emptied only by resetAnimation.
PlayNeedsEmptyFrames ==
  [][/\ (togglePlay /\ ~isPlaying /\ Len(animationFrames) > 0
           => /\ ~isPlaying'
              /\ UNCHANGED <<tickQueued, animationFrameId, renderQueued>>
              /\ UNCHANGED <<animationFrames, currentFrameIndex, toolHead>>)
     /\ (~isPlaying /\ isPlaying' => togglePlay /\ Len(animationFrames) = 0)
     /\ (Len(animationFrames) > 0 /\ Len(animationFrames') = 0 => resetAnimation)]_vars

\* playback has run to its last frame: nothing plays, no tick waits and the
\* frames are still cached, so togglePlay is offered and changes nothing
PlayNeedsEmptyFramesWitness ==
  /\ fpc = "viewer"
  /\ hasPath
  /\ ~isPlaying
  /\ targetFrameIndex = -1
  /\ ~tickQueued
  /\ Len(animationFrames) > 1
  /\ currentFrameIndex > 0
  /\ toolHead = Last(animationFrames).position
  /\ ENABLED togglePlay

\* C35: once playback is on it is eventually off with no tick waiting and no
\* tick running, and then, unless a pause turned it off (the pause enables the
\* controls), the tool head is at the last frame's position.
PlaybackFinishes ==
  isPlaying ~> (/\ ~isPlaying
                /\ ~tickQueued
                /\ targetFrameIndex = -1
                /\ \/ controlsEnabled
                   \/ /\ Len(animationFrames) > 0
                      /\ toolHead = Last(animationFrames).position)

\* playback of a list of one frame has ended by its first tick
PlaybackFinishesWitness ==
  /\ fpc = "viewer"
  /\ hasPath
  /\ Len(animationFrames) = 1
  /\ ~isPlaying
  /\ ~controlsEnabled
  /\ ~tickQueued
  /\ targetFrameIndex = -1
  /\ animationFrameId = 0
  /\ toolHead = animationFrames[1].position

\* C36: a tick that ends playback leaves no frame unvisited between the
\* cursor and the last frame: the cursor has gone through every index up to
\* the one before the last, and the ending tick shows the last frame itself.
EveryFrameVisited ==
  [][(/\ isPlaying
      /\ ~isPlaying'
      /\ \E elapsed \in {0, 3, Len(animationFrames)} : updateAnimation(elapsed))
       => currentFrameIndex' >= Len(animationFrames') - 2]_vars

\* C37: the orbit controls are enabled in every state in which playback is
\* off, however it was turned off (pause, last frame, resetAnimation).
ControlsEnabledWhenStopped == (fpc = "viewer" /\ ~isPlaying) => controlsEnabled

\* C38: a parseContent call that resumes from its await after clearContent or
\* setContent replaced the content it was started with stores no parse
\* result: parseResult stays as it is (null after a clearContent).
StaleParseStoresNothing ==
  [][ParseContentResume /\ Head(pendingParses) # rawContent
       => UNCHANGED parseResult]_vars

\* C39: isParsing is true exactly while at least one parseContent call waits
\* between its start and its return, also when several calls overlap.
ParsingWhileInFlight == spc = "store" => (isParsing <=> Len(pendingParses) > 0)

\* C40: in every state of the store validationErrors is the error list that
\* validateGCode gives for the current rawContent; every parseGCode call was
\* made on content that validateGCode accepts, and a non-null parseResult is
\* the result of one of these calls; a parseContent call that resumes on
\* content that fails validation makes no parseGCode call and leaves
\* parseResult as it is.
ValidationFollowsContent ==
  /\ [](spc = "store" => validationErrors = validateGCode(rawContent).errors)
  /\ [](\A n \in 1..Len(parses) : validateGCode(parses[n].content).isValid)
  /\ [](parseResult # <<>> =>
          \E n \in 1..Len(parses) : parses[n].result = parseResult[1])
  /\ [][ParseContentResume /\ ~validateGCode(rawContent).isValid
          => UNCHANGED <<parseResult, parses>>]_vars

\* 'G1 X10' was parsed, then 'G1 XABC' was set and a parseContent call on it
\* has returned: the errors are those of 'G1 XABC' and parseResult is still
\* the result for 'G1 X10'
ValidationFollowsContentWitness ==
  /\ spc = "store"
  /\ rawContent = <<"G", "1", " ", "X", "A", "B", "C">>
  /\ Len(validationErrors) = 1
  /\ pendingParses = <<>>
  /\ ~isParsing
  /\ storeCalls = 4
  /\ Len(parses) = 1
  /\ parses[1].content = <<"G", "1", " ", "X", "1", "0">>
  /\ parseResult = <<parses[1].result>>

====
